---- MODULE Spec2Model ----
(***************************************************************************)
(* A model of the ETL project of Health_Situation_in_Morocco:              *)
(*   etl/ops/etl.py                  the ops extract_dim_product_category  *)
(*                                   and load_dim_product_category         *)
(*   etl/jobs/run_etl.py             the job etl                           *)
(*   etl/schedules/etl_job_schedule.py  the daily schedule                 *)
(* One run of the job is the specification Spec; the schedule's clock is   *)
(* the specification SchedSpec.                                            *)
(***************************************************************************)
EXTENDS Integers, Sequences, FiniteSets, TLC

\* ------------------------------------------------------------------ bounds

\* The longest CSV file / previous table contents, in rows.
MaxRows == 1

\* The days the schedule's clock runs over.
MaxDays == 2

\* ------------------------------------------------------- program constants

\* The list with the table name of its second entry repeated in its last.
files_to_load_repeated_table ==
    << <<"Suicide deaths.csv", "Suicide_deaths">>,
       <<"calcule.csv", "calcule">>,
       <<"Effectif des assures actifs par Tranche d'age.csv", "Effectif_des_assures_actifs">>,
       <<"Health in Morocco_wikipedia.csv", "Health_in_Morocco_wikipedia">>,
       <<"Indicateurs sur les declarations de salaires CNSS 2020 ( cnss).csv", "Indicateurs_sur_les_declarations">>,
       <<"indicateur-sur-la-repartition-des-affilies-par-region.csv", "indicateur_sur_la_repartition_des_affilies">>,
       <<"indicateur-sur-la-repartition-des-affilies-par-secteur-dactivite cnss.csv", "indicateur_sur_la_repartition_des_secteur">>,
       <<"indic-soc-sante-mef-2014-3 MEF.csv", "indic_soc_sante_mef_2014_3_MEF">>,
       <<"infrastructures-privees-2022.csv", "infrastructures_privees">>,
       <<"offre-de-soins-privees-ms-2013.csv", "offre_de_soins_privees_ms_2013">>,
       <<"stastique.csv", "calcule">> >>

\* files_to_load (etl.py 19-31): the fixed list of (file path, table name).
\* Paths are written by their file name under C:\Users\hp\Desktop\health\data,
\* in ASCII.
files_to_load ==
    << <<"Suicide deaths.csv", "Suicide_deaths">>,
       <<"calcule.csv", "calcule">>,
       <<"Effectif des assures actifs par Tranche d'age.csv", "Effectif_des_assures_actifs">>,
       <<"Health in Morocco_wikipedia.csv", "Health_in_Morocco_wikipedia">>,
       <<"Indicateurs sur les declarations de salaires CNSS 2020 ( cnss).csv", "Indicateurs_sur_les_declarations">>,
       <<"indicateur-sur-la-repartition-des-affilies-par-region.csv", "indicateur_sur_la_repartition_des_affilies">>,
       <<"indicateur-sur-la-repartition-des-affilies-par-secteur-dactivite cnss.csv", "indicateur_sur_la_repartition_des_secteur">>,
       <<"indic-soc-sante-mef-2014-3 MEF.csv", "indic_soc_sante_mef_2014_3_MEF">>,
       <<"infrastructures-privees-2022.csv", "infrastructures_privees">>,
       <<"offre-de-soins-privees-ms-2013.csv", "offre_de_soins_privees_ms_2013">>,
       <<"stastique.csv", "stastique">> >>

NumEntries == Len(files_to_load)

Entries == 1..NumEntries

Paths == {files_to_load[i][1] : i \in Entries}

TableNames == {files_to_load[i][2] : i \in Entries}

\* The op's declared outputs, in the order of the out dict (etl.py 6-16):
\* file_path_1, table_name_1, ..., file_path_11, table_name_11.  An output
\* name f"file_path_{i}" is the pair <<"file_path", i>>.
OutDecl ==
    [j \in 1..22 |->
        IF j % 2 = 1 THEN <<"file_path", (j + 1) \div 2>>
                     ELSE <<"table_name", j \div 2>>]

\* The steps (ops) of the job: 0 is extract_dim_product_category, k in 1..11
\* is the k-th invocation of load_dim_product_category in etl().
ExtractOp == 0

LoadOps == 1..11

Ops == {ExtractOp} \cup LoadOps

\* ------------------------------------------------------------------- state

VARIABLES
    runStatus,   \* the run: "STARTED", "SUCCESS" or "FAILURE"
    opState,     \* per op: "pending", "running", "succeeded", "failed"
    starts,      \* per op: how many times it was started in this run
    pc,          \* per op: the statement it is at
    exI,         \* extract: the loop variable i of enumerate(files_to_load, start=1)
    emitted,     \* extract: the outputs yielded so far, <<name, value>> each
    args,        \* per load: the file_path and table_name it was called with
    conn,        \* per load: its connection, "none", "open" or "closed"
    df,          \* per load: the dataframe read by pd.read_csv
    exc,         \* per op: the exception raised inside its try block, or "none"
    raised,      \* per op: the exception that left the op, or "none"
    errors,      \* per op: the messages it logged with context.log.error
    csv,         \* the file system: path -> the rows of the CSV file
    db,          \* the database: table name -> [exists, rows]
    db0,         \* the database as it was when the run started
    reads,       \* per path: the pd.read_csv calls that returned its contents
    writes,      \* per table: the to_sql calls that replaced it
    day, hour, minute,   \* the schedule's wall clock in its execution timezone
    dayKind,     \* "normal", "spring_forward" or "fall_back" (DST changes)
    repeated,    \* fall_back: whether 01:00-01:59 has already been repeated
    evaluated,   \* whether the schedule was evaluated at the current minute
    requests     \* the runs the schedule requested

etlVars == <<runStatus, opState, starts, pc, exI, emitted, args, conn, df,
             exc, raised, errors, csv, db, db0, reads, writes>>

schedVars == <<day, hour, minute, dayKind, repeated, evaluated, requests>>

\* State of the vendored library components the remaining properties are
\* about.  Each component has its own specification below; the ETL run and
\* the schedule leave these variables alone, and the other way round.
VARIABLES
    tbMaxFrames, \* structlog ExceptionDictTransformer: self.max_frames
    tbInput,     \* the stacks of the trace as extract() returned them
    tbStacks,    \* trace.stacks, whose frames __call__ rewrites in place
    tbPc,        \* "new", "constructed", "rejected" (ValueError) or "called"
    wsWorld,     \* daemon workspace: what _load_workspace() would return now
    location_entries,  \* BaseDaemonWorkspace._location_entries, or None
    wsLoads,     \* _load_workspace() invocations since the last cleanup()
    wsCalls,     \* how many methods were called on the workspace
    wsCleanups,  \* how many of them were cleanup() or __exit__
    wsResult,    \* what the last method call returned or raised
    wsCopy,      \* the DaemonIterationWorkspace last handed out, or "none"
    wsLocationCleanups, \* CodeLocation.cleanup() calls so far, per location
    backfill,    \* the PartitionBackfill namedtuple at hand
    bfResult,    \* what get_num_cancelable() last returned, or "none"
    ldStorage,   \* RepositoryScopedBatchLoader: rows the instance stores
    ldData,      \* self._data
    ldLimits,    \* self._limits
    ldCall,      \* the last call: its data type, key, limit, query and result
    sdVal,       \* serdes: the value handed to pack_value / serialize_value
    sdWire,      \* the packed form or the JSON text's tree, or "none"
    sdOut,       \* the outcome of unpack_value / deserialize_value
    sdPc,        \* "start", "packed", "serialized" or "done"
    crContext,   \* CrossRepoAssetDependedByLoader: each loader's _context
    crCache,     \* the entries of _build_cross_repo_deps's lru_cache
    crBuilds,    \* how often _build_cross_repo_deps's body ran, per loader
    crCalls,     \* how many methods were called on the loaders
    crResult     \* what the last method call returned or raised

tbVars == <<tbMaxFrames, tbInput, tbStacks, tbPc>>

wsVars == <<wsWorld, location_entries, wsLoads, wsCalls, wsCleanups, wsResult,
           wsCopy, wsLocationCleanups>>

bfVars == <<backfill, bfResult>>

ldVars == <<ldStorage, ldData, ldLimits, ldCall>>

sdVars == <<sdVal, sdWire, sdOut, sdPc>>

crVars == <<crContext, crCache, crBuilds, crCalls, crResult>>

libVars == <<tbVars, wsVars, bfVars, ldVars, sdVars, crVars>>

vars == <<runStatus, opState, starts, pc, exI, emitted, args, conn, df,
          exc, raised, errors, csv, db, db0, reads, writes,
          day, hour, minute, dayKind, repeated, evaluated, requests,
          tbMaxFrames, tbInput, tbStacks, tbPc,
          wsWorld, location_entries, wsLoads, wsCalls, wsCleanups, wsResult,
          wsCopy, wsLocationCleanups,
          backfill, bfResult,
          ldStorage, ldData, ldLimits, ldCall,
          sdVal, sdWire, sdOut, sdPc,
          crContext, crCache, crBuilds, crCalls, crResult>>

\* ------------------------------------------------------------------- data

\* The rows of the CSV file of entry i: (seed + i) mod (MaxRows + 1) rows,
\* each tagged with the entry it belongs to.
CsvRows(i, seed) ==
    [r \in 1..((seed + i) % (MaxRows + 1)) |-> <<i, r>>]

\* A table that does not exist.
Absent == [exists |-> FALSE, rows |-> <<>>]

\* What table i held before the run: nothing, or rows of an earlier load.
OldTable(i, seed) ==
    LET n == (seed + i) % (MaxRows + 2)
    IN  IF n = 0 THEN Absent
        ELSE [exists |-> TRUE, rows |-> [r \in 1..(n - 1) |-> <<0, r>>]]

\* The value the extract op emitted under an output name.
OutputValue(name) ==
    LET j == CHOOSE j \in 1..Len(emitted) : emitted[j][1] = name
    IN  emitted[j][2]

HasOutput(name) == \E j \in 1..Len(emitted) : emitted[j][1] = name

NoArgs == [file_path |-> "", table_name |-> ""]


\* Every string a load can be called with as table_name (to_sql creates the
\* table it is given, whatever its name).
AllNames == Paths \cup TableNames

\* ----------------------------------------------------------- the job graph

\* extract_results[j] in etl() (run_etl.py 10-21): the j-th declared output
\* of the extract op, counted from 0.
ExtractResults(j) == OutDecl[j + 1]

\* The k-th call load_dim_product_category(extract_results[2k-2],
\* extract_results[2k-1]) of etl(): the outputs bound to file_path and
\* table_name.
JobWiringRepeated(k) ==
    IF k = 11
    THEN [file_path |-> ExtractResults(18), table_name |-> ExtractResults(19)]
    ELSE [file_path |-> ExtractResults(2 * k - 2), table_name |-> ExtractResults(2 * k - 1)]

JobWiringSwapped(k) ==
    [file_path |-> ExtractResults(2 * k - 1), table_name |-> ExtractResults(2 * k - 2)]

JobWiring(k) ==
    [file_path |-> ExtractResults(2 * k - 2), table_name |-> ExtractResults(2 * k - 1)]

\* The outputs load k waits for.
Upstream(k) == {JobWiring(k).file_path, JobWiring(k).table_name}

\* ------------------------------------------------------------ the executor

Running(o) == opState[o] = "running"

\* @op (etl.py 6 and 45) and @job (run_etl.py 8) are given no retry_policy:
\* a failed op is retried no times.
MaxRetriesOne(o) == 1

MaxRetries(o) == 0

\* A failed op that the executor will start again.
Retriable(o) == opState[o] = "failed" /\ starts[o] <= MaxRetries(o)

\* An op whose failure is final.
Failed(o) == opState[o] = "failed" /\ ~Retriable(o)

\* The executor starts an op when the run is live, no op is executing, no op
\* has failed for good, the op is pending (or to be retried), and its inputs
\* exist.
CanStartOverlapping(o) ==
    /\ runStatus = "STARTED"
    /\ opState[o] = "pending" \/ Retriable(o)
    /\ \A p \in Ops : ~Failed(p)
    /\ o \in LoadOps =>
          /\ opState[ExtractOp] = "succeeded"
          /\ \A n \in Upstream(o) : HasOutput(n)

CanStartAfterFailure(o) ==
    /\ runStatus = "STARTED"
    /\ opState[o] = "pending" \/ Retriable(o)
    /\ \A p \in Ops : ~Running(p)
    /\ o \in LoadOps =>
          /\ opState[ExtractOp] = "succeeded"
          /\ \A n \in Upstream(o) : HasOutput(n)

CanStart(o) ==
    /\ runStatus = "STARTED"
    /\ opState[o] = "pending" \/ Retriable(o)
    /\ \A p \in Ops : ~Running(p) /\ ~Failed(p)
    /\ o \in LoadOps =>
          /\ opState[ExtractOp] = "succeeded"
          /\ \A n \in Upstream(o) : HasOutput(n)

\* The run ends when nothing executes and either an op failed or all are done.
FinishRun ==
    /\ runStatus = "STARTED"
    /\ \A p \in Ops : ~Running(p)
    /\ \/ /\ \E p \in Ops : Failed(p)
          /\ runStatus' = "FAILURE"
       \/ /\ \A p \in Ops : opState[p] = "succeeded"
          /\ runStatus' = "SUCCESS"
    /\ UNCHANGED <<opState, starts, pc, exI, emitted, args, conn, df, exc,
                   raised, errors, csv, db, reads, writes>>
    /\ UNCHANGED <<db0, schedVars, libVars>>

\* ------------------------------------------- extract_dim_product_category

\* f"file_path_{i}" / f"table_name_{i}" with i from enumerate(.., start=1).
YieldNameFromZero(kind, i) == <<kind, i - 1>>

YieldName(kind, i) == <<kind, i>>

StartExtract ==
    /\ CanStart(ExtractOp)
    /\ opState' = [opState EXCEPT ![ExtractOp] = "running"]
    /\ starts' = [starts EXCEPT ![ExtractOp] = @ + 1]
    /\ pc' = [pc EXCEPT ![ExtractOp] = "log"]
    /\ exI' = 1
    /\ emitted' = <<>>
    /\ UNCHANGED <<runStatus, args, conn, df, exc, raised, errors, csv, db,
                   reads, writes>>
    /\ UNCHANGED <<db0, schedVars, libVars>>

\* context.log.info(...) at the head of the loop body.
ExtractLog ==
    /\ Running(ExtractOp)
    /\ pc[ExtractOp] = "log"
    /\ exI <= NumEntries
    /\ pc' = [pc EXCEPT ![ExtractOp] = "yield_file_path"]
    /\ UNCHANGED <<runStatus, opState, starts, exI, emitted, args, conn, df,
                   exc, raised, errors, csv, db, reads, writes>>
    /\ UNCHANGED <<db0, schedVars, libVars>>

\* yield Output(file_path, f"file_path_{i}")
ExtractYieldFilePath ==
    /\ Running(ExtractOp)
    /\ pc[ExtractOp] = "yield_file_path"
    /\ emitted' = Append(emitted,
                         <<YieldName("file_path", exI), files_to_load[exI][1]>>)
    /\ pc' = [pc EXCEPT ![ExtractOp] = "yield_table_name"]
    /\ UNCHANGED <<runStatus, opState, starts, exI, args, conn, df, exc,
                   raised, errors, csv, db, reads, writes>>
    /\ UNCHANGED <<db0, schedVars, libVars>>

\* yield Output(table_name, f"table_name_{i}"), then the next iteration.
ExtractYieldTableName ==
    /\ Running(ExtractOp)
    /\ pc[ExtractOp] = "yield_table_name"
    /\ emitted' = Append(emitted,
                         <<YieldName("table_name", exI), files_to_load[exI][2]>>)
    /\ exI' = exI + 1
    /\ pc' = [pc EXCEPT ![ExtractOp] = "log"]
    /\ UNCHANGED <<runStatus, opState, starts, args, conn, df, exc, raised,
                   errors, csv, db, reads, writes>>
    /\ UNCHANGED <<db0, schedVars, libVars>>

\* The loop is exhausted: the generator returns.
ExtractReturn ==
    /\ Running(ExtractOp)
    /\ pc[ExtractOp] = "log"
    /\ exI > NumEntries
    /\ pc' = [pc EXCEPT ![ExtractOp] = "returned"]
    /\ opState' = [opState EXCEPT ![ExtractOp] = "succeeded"]
    /\ UNCHANGED <<runStatus, starts, exI, emitted, args, conn, df, exc,
                   raised, errors, csv, db, reads, writes>>
    /\ UNCHANGED <<db0, schedVars, libVars>>

\* A statement of the try block raises an Exception.
ExtractRaise ==
    /\ Running(ExtractOp)
    /\ pc[ExtractOp] \in {"log", "yield_file_path", "yield_table_name"}
    /\ exI <= NumEntries
    /\ exc' = [exc EXCEPT ![ExtractOp] = pc[ExtractOp]]
    /\ pc' = [pc EXCEPT ![ExtractOp] = "except"]
    /\ UNCHANGED <<runStatus, opState, starts, exI, emitted, args, conn, df,
                   raised, errors, csv, db, reads, writes>>
    /\ UNCHANGED <<db0, schedVars, libVars>>

\* ------------------------------------------------------ the except blocks

\* except Exception as e: context.log.error(...); raise
\* What the handler leaves behind: the messages logged, the exception that
\* leaves the op, and the op's outcome.
HandlerSwallows(o) ==
    [errors |-> errors[o] + 1, raised |-> "none", outcome |-> "succeeded"]

Handler(o) ==
    [errors |-> errors[o] + 1, raised |-> exc[o], outcome |-> "failed"]

ExceptHandler(o) ==
    /\ Running(o)
    /\ pc[o] = "except"
    /\ errors' = [errors EXCEPT ![o] = Handler(o).errors]
    /\ raised' = [raised EXCEPT ![o] = Handler(o).raised]
    /\ opState' = [opState EXCEPT ![o] = Handler(o).outcome]
    /\ pc' = [pc EXCEPT ![o] = "raised"]
    /\ UNCHANGED <<runStatus, starts, exI, emitted, args, conn, df, exc, csv,
                   db, reads, writes>>
    /\ UNCHANGED <<db0, schedVars, libVars>>


\* ---------------------------------------------- load_dim_product_category

\* df.to_sql(table_name, con=engine, if_exists='replace', index=False): the
\* table is dropped if it exists, created, and filled with the dataframe.
ToSqlAppend(database, name, frame) ==
    [database EXCEPT ![name] = [exists |-> TRUE, rows |-> @.rows \o frame]]

ToSql(database, name, frame) ==
    [database EXCEPT ![name] = [exists |-> TRUE, rows |-> frame]]

\* A to_sql call that raises and takes the whole run's writes back with it.
ToSqlFailuresRollBackRun(database, name, frame) == {db0}

\* What a to_sql call that raises can leave of the table: untouched, dropped,
\* or created and filled with the first rows of the dataframe.
ToSqlFailures(database, name, frame) ==
    {database, [database EXCEPT ![name] = Absent]}
    \cup {[database EXCEPT ![name] = [exists |-> TRUE, rows |-> SubSeq(frame, 1, n)]] :
             n \in 0..Len(frame)}

\* The executor calls the op with the values of the outputs wired to it.
StartLoad(k) ==
    /\ CanStart(k)
    /\ opState' = [opState EXCEPT ![k] = "running"]
    /\ starts' = [starts EXCEPT ![k] = @ + 1]
    /\ args' = [args EXCEPT ![k] =
                   [file_path |-> OutputValue(JobWiring(k).file_path),
                    table_name |-> OutputValue(JobWiring(k).table_name)]]
    /\ pc' = [pc EXCEPT ![k] = "connect"]
    /\ UNCHANGED <<runStatus, exI, emitted, conn, df, exc, raised, errors,
                   csv, db, reads, writes>>
    /\ UNCHANGED <<db0, schedVars, libVars>>

\* engine = create_engine(connection_string); conn = engine.connect()
LoadConnect(k) ==
    /\ Running(k)
    /\ pc[k] = "connect"
    /\ conn' = [conn EXCEPT ![k] = "open"]
    /\ pc' = [pc EXCEPT ![k] = "read_csv"]
    /\ UNCHANGED <<runStatus, opState, starts, exI, emitted, args, df, exc,
                   raised, errors, csv, db, reads, writes>>
    /\ UNCHANGED <<db0, schedVars, libVars>>

\* A load that is handed its dataframe and reads no file.
LoadReadCsvNoRead(k) ==
    /\ Running(k)
    /\ pc[k] = "read_csv"
    /\ pc' = [pc EXCEPT ![k] = "to_sql"]
    /\ UNCHANGED <<runStatus, opState, starts, exI, emitted, args, conn, df,
                   exc, raised, errors, csv, db, reads, writes>>
    /\ UNCHANGED <<db0, schedVars, libVars>>

\* df = pd.read_csv(file_path, encoding='utf-8-sig')
LoadReadCsv(k) ==
    /\ Running(k)
    /\ pc[k] = "read_csv"
    /\ args[k].file_path \in DOMAIN csv
    /\ df' = [df EXCEPT ![k] = csv[args[k].file_path]]
    /\ reads' = [reads EXCEPT ![args[k].file_path] = @ + 1]
    /\ pc' = [pc EXCEPT ![k] = "to_sql"]
    /\ UNCHANGED <<runStatus, opState, starts, exI, emitted, args, conn, exc,
                   raised, errors, csv, db, writes>>
    /\ UNCHANGED <<db0, schedVars, libVars>>

\* df.to_sql(table_name, con=engine, if_exists='replace', index=False)
LoadToSql(k) ==
    /\ Running(k)
    /\ pc[k] = "to_sql"
    /\ db' = ToSql(db, args[k].table_name, df[k])
    /\ writes' = [writes EXCEPT ![args[k].table_name] = @ + 1]
    /\ pc' = [pc EXCEPT ![k] = "close"]
    /\ UNCHANGED <<runStatus, opState, starts, exI, emitted, args, conn, df,
                   exc, raised, errors, csv, reads>>
    /\ UNCHANGED <<db0, schedVars, libVars>>

\* context.log.info(...); conn.close(); the function returns.
LoadClose(k) ==
    /\ Running(k)
    /\ pc[k] = "close"
    /\ conn' = [conn EXCEPT ![k] = "closed"]
    /\ pc' = [pc EXCEPT ![k] = "returned"]
    /\ opState' = [opState EXCEPT ![k] = "succeeded"]
    /\ UNCHANGED <<runStatus, starts, exI, emitted, args, df, exc, raised,
                   errors, csv, db, reads, writes>>
    /\ UNCHANGED <<db0, schedVars, libVars>>

\* A load that has emptied its table before it reads the file.
LoadRaiseAfterDrop(k) ==
    /\ Running(k)
    /\ pc[k] \in {"connect", "read_csv", "close"}
    /\ exc' = [exc EXCEPT ![k] = pc[k]]
    /\ pc' = [pc EXCEPT ![k] = "except"]
    /\ db' = IF pc[k] = "read_csv"
             THEN [db EXCEPT ![args[k].table_name] = Absent]
             ELSE db
    /\ UNCHANGED <<runStatus, opState, starts, exI, emitted, args, conn, df,
                   raised, errors, csv, reads, writes>>
    /\ UNCHANGED <<db0, schedVars, libVars>>

\* create_engine / engine.connect, pd.read_csv, context.log.info or
\* conn.close raises an Exception: control passes to the except block with
\* nothing else changed.
LoadRaise(k) ==
    /\ Running(k)
    /\ pc[k] \in {"connect", "read_csv", "close"}
    /\ exc' = [exc EXCEPT ![k] = pc[k]]
    /\ pc' = [pc EXCEPT ![k] = "except"]
    /\ UNCHANGED <<runStatus, opState, starts, exI, emitted, args, conn, df,
                   raised, errors, csv, db, reads, writes>>
    /\ UNCHANGED <<db0, schedVars, libVars>>

\* df.to_sql raises an Exception, having done any part of its work.
LoadToSqlRaise(k) ==
    /\ Running(k)
    /\ pc[k] = "to_sql"
    /\ db' \in ToSqlFailures(db, args[k].table_name, df[k])
    /\ exc' = [exc EXCEPT ![k] = "to_sql"]
    /\ pc' = [pc EXCEPT ![k] = "except"]
    /\ UNCHANGED <<runStatus, opState, starts, exI, emitted, args, conn, df,
                   raised, errors, csv, reads, writes>>
    /\ UNCHANGED <<db0, schedVars, libVars>>

\* ------------------------------------------------- the library components

\* Python's None, and a value that is not None.  An empty dict is <<>> as a
\* function, so a value that may be None is wrapped: Some({}) is not None.
None == <<>>

Some(x) == <<x>>

\* Each library component before anything was done with it.
TbIdle ==
    /\ tbMaxFrames = 0
    /\ tbInput = <<>>
    /\ tbStacks = <<>>
    /\ tbPc = "idle"

WsIdle ==
    /\ wsWorld = <<>>
    /\ location_entries = None
    /\ wsLoads = 0
    /\ wsCalls = 0
    /\ wsCleanups = 0
    /\ wsResult = None
    /\ wsCopy = None
    /\ wsLocationCleanups = <<>>

BfIdle ==
    /\ backfill = None
    /\ bfResult = None

LdIdle ==
    /\ ldStorage = <<>>
    /\ ldData = <<>>
    /\ ldLimits = <<>>
    /\ ldCall = None

SdIdle ==
    /\ sdVal = None
    /\ sdWire = None
    /\ sdOut = None
    /\ sdPc = "idle"

CrIdle ==
    /\ crContext = <<>>
    /\ crCache = <<>>
    /\ crBuilds = <<>>
    /\ crCalls = 0
    /\ crResult = None

LibIdle == TbIdle /\ WsIdle /\ BfIdle /\ LdIdle /\ SdIdle /\ CrIdle

\* --------------------------------------------------------------- one run

SchedIdle ==
    /\ day = 0
    /\ hour = 0
    /\ minute = 0
    /\ dayKind = "normal"
    /\ repeated = FALSE
    /\ evaluated = FALSE
    /\ requests = <<>>

EtlInitWith(seed) ==
    /\ runStatus = "STARTED"
    /\ opState = [o \in Ops |-> "pending"]
    /\ starts = [o \in Ops |-> 0]
    /\ pc = [o \in Ops |-> "idle"]
    /\ exI = 1
    /\ emitted = <<>>
    /\ args = [k \in LoadOps |-> NoArgs]
    /\ conn = [k \in LoadOps |-> "none"]
    /\ df = [k \in LoadOps |-> <<>>]
    /\ exc = [o \in Ops |-> "none"]
    /\ raised = [o \in Ops |-> "none"]
    /\ errors = [o \in Ops |-> 0]
    /\ csv = [p \in Paths |->
                 LET i == CHOOSE i \in Entries : files_to_load[i][1] = p
                 IN  CsvRows(i, seed)]
    /\ db = [n \in AllNames |->
                IF n \in TableNames
                THEN LET i == CHOOSE i \in Entries : files_to_load[i][2] = n
                     IN  OldTable(i, seed)
                ELSE Absent]
    /\ db0 = db
    /\ reads = [p \in Paths |-> 0]
    /\ writes = [n \in AllNames |-> 0]

EtlInit == \E seed \in 0..MaxRows : EtlInitWith(seed)

Init == EtlInit /\ SchedIdle /\ LibIdle

Next ==
    \/ StartExtract
    \/ ExtractLog
    \/ ExtractYieldFilePath
    \/ ExtractYieldTableName
    \/ ExtractReturn
    \/ ExtractRaise
    \/ \E o \in Ops : ExceptHandler(o)
    \/ \E k \in LoadOps : StartLoad(k)
    \/ \E k \in LoadOps : LoadConnect(k)
    \/ \E k \in LoadOps : LoadReadCsv(k)
    \/ \E k \in LoadOps : LoadToSql(k)
    \/ \E k \in LoadOps : LoadClose(k)
    \/ \E k \in LoadOps : LoadRaise(k)
    \/ \E k \in LoadOps : LoadToSqlRaise(k)
    \/ FinishRun

Spec == Init /\ [][Next]_vars


\* ---------------------------------------------------------- the schedule

\* @schedule(cron_schedule="0 10 * * *", ...): the minute and hour fields;
\* day of month, month and day of week are "*".
CronMinute == {0}

CronHour == {10}

CronMatchesEveryHour(h, m) == m \in CronMinute

CronMatches(h, m) == m \in CronMinute /\ h \in CronHour

\* def etl_job_schedule(_context): run_config = {}; return run_config
\* (job=etl in the decorator).
etl_job_schedule == [job |-> "etl", run_config |-> <<>>]

DayKinds == {"normal", "spring_forward", "fall_back"}

\* The schedule is evaluated at the current minute of its timezone's wall
\* clock, and the cron expression matches: a run is requested.
ScheduleFire ==
    /\ ~evaluated
    /\ CronMatches(hour, minute)
    /\ requests' = Append(requests,
                          [job |-> etl_job_schedule.job,
                           run_config |-> etl_job_schedule.run_config,
                           day |-> day, hour |-> hour, minute |-> minute])
    /\ evaluated' = TRUE
    /\ UNCHANGED <<day, hour, minute, dayKind, repeated>>
    /\ UNCHANGED <<etlVars, libVars>>

\* The cron expression does not match the current minute.
SchedulePass ==
    /\ ~evaluated
    /\ ~CronMatches(hour, minute)
    /\ evaluated' = TRUE
    /\ UNCHANGED <<day, hour, minute, dayKind, repeated, requests>>
    /\ UNCHANGED <<etlVars, libVars>>

\* The wall clock of US/Central moves to the next minute.  On the day summer
\* time starts 01:59 is followed by 03:00; on the day it ends 01:59 is
\* followed by 01:00 once.
ClockAdvance ==
    /\ evaluated
    /\ evaluated' = FALSE
    /\ UNCHANGED requests
    /\ UNCHANGED <<etlVars, libVars>>
    /\ \/ /\ minute < 59
          /\ minute' = minute + 1
          /\ UNCHANGED <<day, hour, dayKind, repeated>>
       \/ /\ minute = 59
          /\ hour = 1
          /\ dayKind = "spring_forward"
          /\ minute' = 0
          /\ hour' = 3
          /\ UNCHANGED <<day, dayKind, repeated>>
       \/ /\ minute = 59
          /\ hour = 1
          /\ dayKind = "fall_back"
          /\ ~repeated
          /\ minute' = 0
          /\ hour' = 1
          /\ repeated' = TRUE
          /\ UNCHANGED <<day, dayKind>>
       \/ /\ minute = 59
          /\ hour < 23
          /\ ~(hour = 1 /\ dayKind = "spring_forward")
          /\ ~(hour = 1 /\ dayKind = "fall_back" /\ ~repeated)
          /\ minute' = 0
          /\ hour' = hour + 1
          /\ UNCHANGED <<day, dayKind, repeated>>
       \/ /\ minute = 59
          /\ hour = 23
          /\ day < MaxDays - 1
          /\ minute' = 0
          /\ hour' = 0
          /\ day' = day + 1
          /\ dayKind' \in DayKinds
          /\ repeated' = FALSE

SchedInit ==
    /\ EtlInitWith(0)
    /\ LibIdle
    /\ day = 0
    /\ hour = 0
    /\ minute = 0
    /\ dayKind \in DayKinds
    /\ repeated = FALSE
    /\ evaluated = FALSE
    /\ requests = <<>>

SchedNext ==
    \/ ScheduleFire
    \/ SchedulePass
    \/ ClockAdvance

SchedSpec == SchedInit /\ [][SchedNext]_vars


\* ================================================================ claims

Started(k) == starts[k] > 0

Finished(o) == opState[o] \in {"succeeded", "failed"}

\* C1: the k-th load is called with the values of the outputs file_path_k and
\* table_name_k, which are the path and the table name of the k-th entry of
\* files_to_load: never a table name as file_path, a path as table_name, or
\* the components of two entries.
C1_LoadReceivesItsEntry ==
    \A k \in LoadOps :
        Started(k) =>
            /\ HasOutput(<<"file_path", k>>)
            /\ HasOutput(<<"table_name", k>>)
            /\ args[k].file_path = OutputValue(<<"file_path", k>>)
            /\ args[k].table_name = OutputValue(<<"table_name", k>>)
            /\ args[k].file_path \in Paths
            /\ args[k].table_name \in TableNames
            /\ args[k] = [file_path |-> files_to_load[k][1],
                          table_name |-> files_to_load[k][2]]

C1_Witness == \A k \in LoadOps : Started(k)

\* C2: an execution of extract_dim_product_category that returns has emitted
\* exactly the 22 declared outputs, once each, in the order file_path_1,
\* table_name_1, ..., file_path_11, table_name_11, with the path and the table
\* name of the i-th entry under file_path_i and table_name_i; while it runs,
\* what it has emitted is a prefix of that.
C2_ExtractEmitsDeclaredOutputs ==
    /\ Len(emitted) <= 22
    /\ \A j \in 1..Len(emitted) :
          /\ emitted[j][1] = OutDecl[j]
          /\ emitted[j][1] =
                IF j % 2 = 1 THEN <<"file_path", (j + 1) \div 2>>
                             ELSE <<"table_name", j \div 2>>
          /\ emitted[j][2] =
                IF j % 2 = 1 THEN files_to_load[(j + 1) \div 2][1]
                             ELSE files_to_load[j \div 2][2]
    /\ pc[ExtractOp] = "returned" => Len(emitted) = 22

C2_Witness == pc[ExtractOp] = "returned" /\ opState[ExtractOp] = "succeeded"

\* C3: when a run in which no op failed has ended, every path of the list was
\* read exactly once, every table of the list was written exactly once, and
\* the eleven loads have completed, one per destination table.
C3_ReadOnceWriteOnce ==
    (runStatus # "STARTED" /\ \A o \in Ops : opState[o] # "failed" /\ exc[o] = "none") =>
        /\ \A i \in Entries : reads[files_to_load[i][1]] = 1
        /\ \A i \in Entries : writes[files_to_load[i][2]] = 1
        /\ \A n \in AllNames \ TableNames : writes[n] = 0
        /\ Cardinality({k \in LoadOps : opState[k] = "succeeded"}) = 11
        /\ {args[k].table_name : k \in LoadOps} = TableNames
        /\ Cardinality(TableNames) = 11

C3_Witness ==
    /\ runStatus = "SUCCESS"
    /\ \A o \in Ops : opState[o] = "succeeded"

\* C4 (as claimed): after a load has finished, by returning or by raising,
\* the connection it opened is closed.
C4_ConnectionClosedWhenFinished ==
    \A k \in LoadOps : Finished(k) => conn[k] # "open"

\* C5: an op in which a statement raised logs one error message and lets the
\* same exception out: it ends failed, never succeeded, and the exception is
\* not swallowed.
C5_LogAndReraise ==
    \A o \in Ops :
        /\ (exc[o] # "none" /\ pc[o] # "except") =>
               /\ errors[o] = 1
               /\ raised[o] = exc[o]
               /\ opState[o] = "failed"
        /\ opState[o] = "succeeded" => exc[o] = "none"
        /\ raised[o] # "none" => raised[o] = exc[o]

C5_Witness ==
    \E k \in LoadOps :
        /\ exc[k] = "to_sql"
        /\ opState[k] = "failed"
        /\ errors[k] = 1

\* C6: once an op has failed, no load that had not started is started.
C6_NoStartAfterFailure ==
    [][(\E p \in Ops : opState[p] = "failed") =>
           \A k \in LoadOps : starts'[k] = starts[k]]_vars

C6_Witness ==
    /\ runStatus = "FAILURE"
    /\ \E p \in LoadOps : opState[p] = "failed"
    /\ \E k \in LoadOps : opState[k] = "pending" /\ ~Started(k)
    /\ \E j \in LoadOps : opState[j] = "succeeded"

\* C7: at most one op, the extract or one load, is executing at any moment.
C7_OneOpAtATime ==
    Cardinality({o \in Ops : Running(o)}) <= 1

C7_Witness ==
    \E k \in LoadOps :
        /\ Running(k)
        /\ pc[k] = "to_sql"
        /\ \E j \in LoadOps : opState[j] = "succeeded"
        /\ \E j \in LoadOps : opState[j] = "pending"

\* C8: after a load has completed successfully its destination table exists
\* and holds exactly the rows that load read from its CSV file, whatever the
\* table held before.
C8_TableIsReplaced ==
    \A k \in LoadOps :
        opState[k] = "succeeded" =>
            /\ df[k] = csv[args[k].file_path]
            /\ db[args[k].table_name] = [exists |-> TRUE, rows |-> df[k]]

C8_Witness ==
    /\ \E k \in LoadOps :
          /\ opState[k] = "succeeded"
          /\ db0[args[k].table_name].exists
          /\ db0[args[k].table_name].rows # <<>>
          /\ df[k] # <<>>
    /\ \E k \in LoadOps :
          /\ opState[k] = "succeeded"
          /\ ~db0[args[k].table_name].exists
    /\ \E k \in LoadOps :
          /\ opState[k] = "succeeded"
          /\ db0[args[k].table_name].rows # <<>>
          /\ df[k] = <<>>

\* C9: within one run no op is started more than once, so a failed load is
\* not attempted again, and no table is written twice.
C9_NoRetry ==
    /\ \A o \in Ops : starts[o] <= 1
    /\ \A n \in AllNames : writes[n] <= 1

C9_Witness ==
    /\ runStatus = "FAILURE"
    /\ \E k \in LoadOps : opState[k] = "failed" /\ starts[k] = 1
    /\ \E k \in LoadOps :
          /\ opState[k] = "succeeded"
          /\ writes[args[k].table_name] = 1

\* Whether the schedule has been evaluated at 10:00 of day d.
TenPassed(d) ==
    \/ day > d
    \/ day = d /\ hour > 10
    \/ day = d /\ hour = 10 /\ minute > 0
    \/ day = d /\ hour = 10 /\ minute = 0 /\ evaluated

RequestsOn(d) == {j \in 1..Len(requests) : requests[j].day = d}

\* C10: the schedule requests one run per day, at 10:00 of its timezone's
\* wall clock and at no other time, and every request is for job etl with an
\* empty run configuration.
C10_DailyAtTen ==
    /\ \A j \in 1..Len(requests) :
          /\ requests[j].job = "etl"
          /\ requests[j].run_config = <<>>
          /\ requests[j].hour = 10
          /\ requests[j].minute = 0
    /\ \A d \in 0..(MaxDays - 1) :
          Cardinality(RequestsOn(d)) = IF TenPassed(d) THEN 1 ELSE 0

C10_Witness ==
    /\ Len(requests) = MaxDays
    /\ hour = 23
    /\ dayKind = "fall_back"


\* Whether load k has got past its pd.read_csv call.
HasRead(k) ==
    \/ pc[k] \in {"to_sql", "close", "returned"}
    \/ pc[k] \in {"except", "raised"} /\ exc[k] \in {"to_sql", "close"}

\* C11 (as claimed): the first operation reads the CSV files and the second
\* is handed a dataframe, not a file path, and reads no file.
C11_ExtractReadsLoadDoesNot ==
    /\ pc[ExtractOp] = "returned" =>
          \A i \in Entries : reads[files_to_load[i][1]] = 1
    /\ \A k \in LoadOps :
          Started(k) =>
              /\ args[k].file_path \notin Paths
              /\ (HasRead(k) => reads[files_to_load[k][1]] = 0)

\* C11 (amended): the first operation reads no file and emits paths and table
\* names; the second is given a file path and a table name, opens a
\* connection, reads the CSV file itself, once, and overwrites the named
\* table with the rows it read.
C11_ExtractEmitsLoadReads ==
    /\ (\A k \in LoadOps : ~Started(k)) => \A p \in Paths : reads[p] = 0
    /\ \A j \in 1..Len(emitted) : emitted[j][2] \in Paths \cup TableNames
    /\ \A k \in LoadOps :
          Started(k) =>
              /\ args[k].file_path \in Paths
              /\ args[k].table_name \in TableNames
              /\ reads[args[k].file_path] = IF HasRead(k) THEN 1 ELSE 0
              /\ HasRead(k) => df[k] = csv[args[k].file_path]
              /\ HasRead(k) => conn[k] # "none"
              /\ opState[k] = "succeeded" =>
                    db[args[k].table_name].rows = csv[args[k].file_path]

C11_Witness ==
    \E k \in LoadOps :
        /\ opState[k] = "succeeded"
        /\ reads[args[k].file_path] = 1
        /\ df[k] # <<>>
        /\ db[args[k].table_name].rows = df[k]
        /\ conn[k] = "closed"

\* C16: a load starts only after the extract op has emitted file_path_k and
\* table_name_k, and no load starts in a run whose extract op raised.
C16_LoadAfterItsOutputs ==
    /\ \A k \in LoadOps :
          Started(k) =>
              /\ HasOutput(<<"file_path", k>>)
              /\ HasOutput(<<"table_name", k>>)
    /\ exc[ExtractOp] # "none" => \A k \in LoadOps : ~Started(k)

C16_Witness ==
    /\ exc[ExtractOp] # "none"
    /\ opState[ExtractOp] = "failed"
    /\ Len(emitted) >= 2
    /\ runStatus = "FAILURE"
    /\ \A k \in LoadOps : ~Started(k)

\* C17: when a load has failed, every table whose load completed keeps the
\* rows that load wrote and the tables of the loads that never started are as
\* they were: nothing is rolled back.
C17_NoRollback ==
    (\E p \in LoadOps : exc[p] # "none") =>
        /\ \A k \in LoadOps :
              opState[k] = "succeeded" =>
                  /\ db[args[k].table_name] = [exists |-> TRUE, rows |-> df[k]]
                  /\ writes[args[k].table_name] = 1
        /\ \A i \in LoadOps :
              ~Started(i) => db[files_to_load[i][2]] = db0[files_to_load[i][2]]

C17_Witness ==
    /\ runStatus = "FAILURE"
    /\ \E p \in LoadOps : opState[p] = "failed" /\ exc[p] = "to_sql"
    /\ \E k \in LoadOps :
          /\ opState[k] = "succeeded"
          /\ db[args[k].table_name] # db0[args[k].table_name]
    /\ \E i \in LoadOps :
          /\ ~Started(i)
          /\ db[files_to_load[i][2]] = db0[files_to_load[i][2]]
          /\ db0[files_to_load[i][2]].rows # csv[files_to_load[i][1]]

\* C18: a load that failed before its table write began, at the connection or
\* at the CSV read, leaves its destination table as it was.
C18_EarlyFailureLeavesTable ==
    \A k \in LoadOps :
        exc[k] \in {"connect", "read_csv"} =>
            /\ db[args[k].table_name] = db0[args[k].table_name]
            /\ writes[args[k].table_name] = 0

C18_Witness ==
    \E k \in LoadOps :
        /\ exc[k] = "read_csv"
        /\ opState[k] = "failed"
        /\ db0[args[k].table_name].exists
        /\ db0[args[k].table_name].rows # <<>>

\* The database after a run in which every load succeeded, whatever the order
\* of the loads: each table of the list holds the rows of its file.
FinalDatabase ==
    [n \in AllNames |->
        IF n \in TableNames
        THEN LET i == CHOOSE i \in Entries : files_to_load[i][2] = n
             IN  [exists |-> TRUE, rows |-> csv[files_to_load[i][1]]]
        ELSE db0[n]]

\* C19: the eleven table names are pairwise distinct, no two loads write the
\* same table, and a run in which all loads succeeded ends in the same
\* database whatever the order in which the loads ran.
C19_DistinctTablesOrderFree ==
    /\ \A i, j \in Entries :
          i # j => files_to_load[i][2] # files_to_load[j][2]
    /\ Cardinality(TableNames) = 11
    /\ \A k, j \in LoadOps :
          (k # j /\ Started(k) /\ Started(j)) =>
              args[k].table_name # args[j].table_name
    /\ runStatus = "SUCCESS" => db = FinalDatabase

C19_Witness ==
    /\ runStatus = "SUCCESS"
    /\ db = FinalDatabase
    /\ db # db0

\* ------------------------------ structlog.tracebacks.ExceptionDictTransformer

\* The largest max_frames argument, the longest stack and the most stacks of
\* a trace that are tried.
MaxFramesArg == 5

MaxStackLen == 6

MaxStacks == 2

\* Frame(filename=..., lineno=..., name=...).  A name is a pair so that the
\* formatted f"Skipped frames: {n}" keeps its number: <<"Skipped frames: ", n>>.
Frame(filename, lineno, name) ==
    [filename |-> filename, lineno |-> lineno, name |-> name]

\* The i-th frame of the s-th stack as extract() built it from the traceback.
ExtractedFrame(s, i) == Frame("app.py", (10 * s) + i, <<"fn", i>>)

\* trace = extract(*exc_info, ...): a trace of up to MaxStacks stacks (the
\* exception and its causes), each with up to MaxStackLen frames.
ExtractedStack(s, n) ==
    [exc_type |-> "ValueError", frames |-> [i \in 1..n |-> ExtractedFrame(s, i)]]

ExtractedTraces ==
    UNION {[1..m -> 0..MaxStackLen] : m \in 0..MaxStacks}

extract(lens) == [s \in 1..Len(lens) |-> ExtractedStack(s, lens[s])]

\* Python's slices frames[:n] and frames[-n:]  (frames[-0:] is frames[0:]).
SliceHead(frames, n) ==
    SubSeq(frames, 1, IF n < Len(frames) THEN n ELSE Len(frames))

SliceTail(frames, n) ==
    IF n = 0 \/ n >= Len(frames)
    THEN frames
    ELSE SubSeq(frames, Len(frames) - n + 1, Len(frames))

\* half = self.max_frames // 2
HalfRoundedUp(max_frames) == (max_frames + 1) \div 2

Half(max_frames) == max_frames \div 2

\* fake_frame = Frame(filename="", lineno=-1, name=f"Skipped frames: {...}")
FakeFrame(frames, max_frames) ==
    Frame("", -1, <<"Skipped frames: ", Len(frames) - (2 * Half(max_frames))>>)

\* The body of the loop over trace.stacks, for one stack.
Truncate(stack, max_frames) ==
    IF Len(stack.frames) <= max_frames
    THEN stack
    ELSE [stack EXCEPT !.frames =
              SliceHead(stack.frames, Half(max_frames))
              \o <<FakeFrame(stack.frames, max_frames)>>
              \o SliceTail(stack.frames, Half(max_frames))]

\* dataclasses.asdict(stack): the stack and its frames as dicts, field by field.
asdict(stack) ==
    [exc_type |-> stack.exc_type,
     frames |-> [i \in 1..Len(stack.frames) |->
                    [filename |-> stack.frames[i].filename,
                     lineno |-> stack.frames[i].lineno,
                     name |-> stack.frames[i].name]]]

\* ExceptionDictTransformer(max_frames=...) with max_frames >= 2.
TbConstruct ==
    /\ tbPc = "new"
    /\ ~(tbMaxFrames < 2)
    /\ tbPc' = "constructed"
    /\ UNCHANGED <<tbMaxFrames, tbInput, tbStacks>>
    /\ UNCHANGED <<etlVars, schedVars, wsVars, bfVars, ldVars, sdVars, crVars>>

\* ExceptionDictTransformer(max_frames=...) raising ValueError.
TbConstructRaise ==
    /\ tbPc = "new"
    /\ tbMaxFrames < 2
    /\ tbPc' = "rejected"
    /\ UNCHANGED <<tbMaxFrames, tbInput, tbStacks>>
    /\ UNCHANGED <<etlVars, schedVars, wsVars, bfVars, ldVars, sdVars, crVars>>

\* transformer(exc_info): extract the trace, cut every stack that is too
\* long, return the stacks as dicts.
TbCall ==
    /\ tbPc = "constructed"
    /\ tbStacks' = [s \in 1..Len(tbInput) |->
                       asdict(Truncate(tbInput[s], tbMaxFrames))]
    /\ tbPc' = "called"
    /\ UNCHANGED <<tbMaxFrames, tbInput>>
    /\ UNCHANGED <<etlVars, schedVars, wsVars, bfVars, ldVars, sdVars, crVars>>

TbInit ==
    /\ EtlInitWith(0)
    /\ SchedIdle
    /\ WsIdle /\ BfIdle /\ LdIdle /\ SdIdle /\ CrIdle
    /\ tbMaxFrames \in 0..MaxFramesArg
    /\ \E lens \in ExtractedTraces : tbInput = extract(lens)
    /\ tbStacks = <<>>
    /\ tbPc = "new"

TbNext ==
    \/ TbConstruct
    \/ TbConstructRaise
    \/ TbCall

TbSpec == TbInit /\ [][TbNext]_vars

\* Whether a frame is the placeholder that stands for n skipped frames.
IsPlaceholder(frame, n) ==
    /\ frame.filename = ""
    /\ frame.lineno = -1
    /\ frame.name = <<"Skipped frames: ", n>>

Placeholders(frames) ==
    {i \in 1..Len(frames) : frames[i].filename = "" /\ frames[i].lineno = -1}

\* Stack s of the returned list, against stack s of the extracted trace:
\* a stack of at most max_frames frames is returned as it was; a longer one
\* keeps its first and last max_frames // 2 frames, in order, around one
\* placeholder that reports how many frames were removed.
KeptAroundPlaceholder(s) ==
    LET inp == asdict(tbInput[s]).frames
        out == tbStacks[s].frames
        h == tbMaxFrames \div 2
    IN  IF Len(inp) <= tbMaxFrames
        THEN out = inp
        ELSE /\ Len(out) = (2 * h) + 1
             /\ SubSeq(out, 1, h) = SubSeq(inp, 1, h)
             /\ SubSeq(out, h + 2, (2 * h) + 1)
                    = SubSeq(inp, Len(inp) - h + 1, Len(inp))
             /\ Placeholders(out) = {h + 1}
             /\ IsPlaceholder(out[h + 1], Len(inp) - (Len(out) - 1))

\* C13 as stated: every returned stack has at most max_frames frames,
\* counting the placeholder, and a longer stack keeps its first and last
\* max_frames // 2 frames around one placeholder with the removed count.
C13_AtMostMaxFramesWithPlaceholder ==
    tbPc = "called" =>
        \A s \in 1..Len(tbStacks) :
            /\ Len(tbStacks[s].frames) <= tbMaxFrames
            /\ KeptAroundPlaceholder(s)

\* C13: for every max_frames >= 2, every returned stack has at most
\* max_frames frames of the traceback, and at most one entry more when the
\* placeholder is counted (exactly 2 * (max_frames // 2) + 1 entries for a
\* stack that was cut); a stack longer than max_frames keeps its first and
\* last max_frames // 2 frames in their order around exactly one placeholder
\* whose reported count is the number of frames removed.
C13_AtMostMaxFramesPlusPlaceholder ==
    tbPc = "called" =>
        /\ tbMaxFrames >= 2
        /\ Len(tbStacks) = Len(tbInput)
        /\ \A s \in 1..Len(tbStacks) :
            LET out == tbStacks[s].frames
            IN  /\ Len(out) - Cardinality(Placeholders(out)) <= tbMaxFrames
                /\ Len(out) <= tbMaxFrames + 1
                /\ KeptAroundPlaceholder(s)

\* A stack longer than an even max_frames was cut: it now has max_frames + 1
\* entries.
C13_Witness ==
    /\ tbPc = "called"
    /\ tbMaxFrames % 2 = 0
    /\ \E s \in 1..Len(tbStacks) :
        /\ Len(tbInput[s].frames) > tbMaxFrames
        /\ Len(tbStacks[s].frames) = tbMaxFrames + 1

\* ------------------------------ dagster._core.execution.backfill.PartitionBackfill

\* The longest partition_names list tried.
MaxPartitions == 3

\* class BulkActionStatus(Enum)
BulkActionStatus == {"REQUESTED", "COMPLETED", "FAILED", "CANCELING", "CANCELED"}

\* The partition names a backfill may target.  The partition keys of one
\* partitions definition are distinct, so a partition_names list has no
\* repeated name.
PartitionNamePool == {"2024-01-01", "2024-01-02", "2024-01-03", "2024-01-04"}

PartitionNameLists ==
    {names \in UNION {[1..n -> PartitionNamePool] : n \in 0..MaxPartitions} :
        \A i, j \in 1..Len(names) : names[i] = names[j] => i = j}

\* The values of last_submitted_partition_name: None, or a str, which may be
\* empty or name no partition of the list.
Checkpoints == {None} \cup {Some(s) : s \in PartitionNamePool \cup {""}}

\* The fields of the namedtuple that get_num_cancelable looks at.
BackfillFields ==
    [status : BulkActionStatus,
     partition_names : {None} \cup {Some(names) : names \in PartitionNameLists},
     last_submitted_partition_name : Checkpoints,
     serialized_asset_backfill_data : {None, Some("serialized")},
     asset_backfill_data : {None, Some("data")}]

\* PartitionBackfill.__new__: the invariants it checks (88-90); a call that
\* fails them raises and builds nothing.
NewIsValid(fields) ==
    fields.serialized_asset_backfill_data # None =>
        /\ fields.partition_names = None
        /\ fields.last_submitted_partition_name = None

\* @property is_asset_backfill
is_asset_backfill(self) ==
    \/ self.serialized_asset_backfill_data # None
    \/ self.asset_backfill_data # None

\* Python's `x in names` and names.index(x), counted from 0.
Contains(names, x) == \E i \in 1..Len(names) : names[i] = x

Index(names, x) ==
    (CHOOSE i \in 1..Len(names) :
        /\ names[i] = x
        /\ \A j \in 1..(i - 1) : names[j] # x) - 1

\* Python's truth value of an Optional[str]: None and "" are false.
Truthy(checkpoint) == checkpoint # None /\ checkpoint[1] # ""

max(a, b) == IF a >= b THEN a ELSE b

\* checkpoint_idx = (names.index(checkpoint) + 1 if checkpoint and
\* checkpoint in names else 0)
CheckpointIdxOffByOne(names, checkpoint) ==
    IF Truthy(checkpoint) /\ Contains(names, checkpoint[1])
    THEN Index(names, checkpoint[1])
    ELSE 0

CheckpointIdx(names, checkpoint) ==
    IF Truthy(checkpoint) /\ Contains(names, checkpoint[1])
    THEN Index(names, checkpoint[1]) + 1
    ELSE 0

\* What a call returned, or that it raised.
Returned(value) == [raised |-> FALSE, value |-> value]

Raised == [raised |-> TRUE, value |-> 0]

\* PartitionBackfill.get_num_cancelable
get_num_cancelable(self) ==
    IF is_asset_backfill(self) THEN Returned(0)
    ELSE IF self.status # "REQUESTED" THEN Returned(0)
    ELSE IF self.partition_names = None THEN Raised
    ELSE LET checkpoint == self.last_submitted_partition_name
             total_count == Len(self.partition_names[1])
             checkpoint_idx == CheckpointIdx(self.partition_names[1], checkpoint)
         IN  Returned(max(0, total_count - checkpoint_idx))

\* backfill.get_num_cancelable()
BfGetNumCancelable ==
    /\ backfill # None
    /\ bfResult' = Some(get_num_cancelable(backfill[1]))
    /\ UNCHANGED backfill
    /\ UNCHANGED <<etlVars, schedVars, tbVars, wsVars, ldVars, sdVars, crVars>>

\* backfill = backfill.with_partition_checkpoint(name); __new__ raises for a
\* backfill with serialized_asset_backfill_data, and nothing is rebound.
BfWithPartitionCheckpoint ==
    /\ backfill # None
    /\ \E name \in PartitionNamePool \cup {""} :
        LET fields == [backfill[1] EXCEPT
                          !.last_submitted_partition_name = Some(name)]
        IN  backfill' = IF NewIsValid(fields) THEN Some(fields) ELSE backfill
    /\ bfResult' = None
    /\ UNCHANGED <<etlVars, schedVars, tbVars, wsVars, ldVars, sdVars, crVars>>

\* backfill = backfill.with_status(status)
BfWithStatus ==
    /\ backfill # None
    /\ \E status \in BulkActionStatus :
        backfill' = Some([backfill[1] EXCEPT !.status = status])
    /\ bfResult' = None
    /\ UNCHANGED <<etlVars, schedVars, tbVars, wsVars, ldVars, sdVars, crVars>>

BfInit ==
    /\ EtlInitWith(0)
    /\ SchedIdle
    /\ TbIdle /\ WsIdle /\ LdIdle /\ SdIdle /\ CrIdle
    /\ \E fields \in BackfillFields :
        /\ NewIsValid(fields)
        /\ backfill = Some(fields)
    /\ bfResult = None

BfNext ==
    \/ BfGetNumCancelable
    \/ BfWithPartitionCheckpoint
    \/ BfWithStatus

BfSpec == BfInit /\ [][BfNext]_vars

\* The partition names positioned after the checkpoint: every position when
\* there is no checkpoint or it names no partition of the list.
NamesAfter(names, checkpoint) ==
    {i \in 1..Len(names) :
        checkpoint # None =>
            \A j \in 1..Len(names) : names[j] = checkpoint[1] => j < i}

\* What get_num_cancelable must return for the backfill it was called on.
NumCancelableAsStated ==
    LET self == backfill[1]
        result == bfResult[1]
    IN  /\ is_asset_backfill(self) =>
            result = Returned(0)
        /\ self.status # "REQUESTED" =>
            result = Returned(0)
        /\ (~is_asset_backfill(self) /\ self.status = "REQUESTED"
                /\ self.partition_names # None) =>
            /\ ~result.raised
            /\ result.value = Cardinality(NamesAfter(self.partition_names[1],
                                  self.last_submitted_partition_name))
        /\ (~result.raised /\ self.partition_names # None) =>
            /\ 0 <= result.value
            /\ result.value <= Len(self.partition_names[1])

\* The checkpoint moves forward through partition_names: from none to a
\* listed name, or from a listed name to one further down the list.
CheckpointAdvances ==
    /\ backfill # None /\ backfill' # None
    /\ backfill[1].partition_names # None
    /\ backfill'[1] = [backfill[1] EXCEPT !.last_submitted_partition_name =
                          backfill'[1].last_submitted_partition_name]
    /\ LET names == backfill[1].partition_names[1]
           old == backfill[1].last_submitted_partition_name
           new == backfill'[1].last_submitted_partition_name
       IN  /\ new # None /\ Contains(names, new[1])
           /\ (old = None \/ ~Contains(names, old[1])
               \/ \E i, j \in 1..Len(names) :
                    names[i] = old[1] /\ names[j] = new[1] /\ i < j)

NumCancelableNeverIncreases ==
    CheckpointAdvances =>
        LET before == get_num_cancelable(backfill[1])
            after == get_num_cancelable(backfill'[1])
        IN  (~before.raised /\ ~after.raised) /\ after.value <= before.value

MaxWsCalls == 4

\* The location names of the workspace, and a name it never has.
LocationNames == {"etl", "reports"}

LocationNameArgs == LocationNames \cup {"missing"}

\* A CodeLocationEntry, as far as get_code_location and cleanup read it: a
\* loaded location, a location that failed to load, one still loading.
CodeLocationEntries ==
    {[code_location |-> Some("CodeLocation"), load_error |-> None],
     [code_location |-> None, load_error |-> Some("error")],
     [code_location |-> None, load_error |-> None]}

\* What the abstract _load_workspace() can return: a Mapping from location
\* names to entries.  The code locations and workspace.yaml change between
\* loads, so it need not return the same mapping twice.
Workspaces == UNION {[names -> CodeLocationEntries] : names \in SUBSET LocationNames}

\* `if self._location_entries is None:` at the head of every getter.
NeedsLoadAlways == TRUE

NeedsLoad == location_entries = None

\* if self._location_entries is None:
\*     self._location_entries = self._load_workspace()
LoadedEntries == IF NeedsLoad THEN Some(wsWorld) ELSE location_entries

LoadIfNone ==
    /\ location_entries' = LoadedEntries
    /\ wsLoads' = IF NeedsLoad THEN wsLoads + 1 ELSE wsLoads

\* What a method call did: its name, whether it invoked _load_workspace(),
\* whether it raised, and what it returned.
WsOutcome(call, raises, value) ==
    Some([call |-> call, loaded |-> NeedsLoad, raised |-> raises, value |-> value])

\* workspace.get_workspace_snapshot()
GetWorkspaceSnapshot ==
    /\ wsCalls < MaxWsCalls
    /\ LoadIfNone
    /\ wsResult' = WsOutcome("get_workspace_snapshot", FALSE, LoadedEntries[1])
    /\ wsCalls' = wsCalls + 1
    /\ UNCHANGED <<wsWorld, wsCleanups, wsCopy, wsLocationCleanups>>
    /\ UNCHANGED <<etlVars, schedVars, tbVars, bfVars, ldVars, sdVars, crVars>>

\* DaemonIterationWorkspace.__init__(location_entries_copy): the copy is kept
\* and BaseDaemonWorkspace.__init__ leaves the new workspace's own cache empty.
DaemonIterationWorkspace(location_entries_copy) ==
    [location_entries_copy |-> location_entries_copy, location_entries |-> None]

\* workspace.get_workspace_copy_for_iteration(): a DaemonIterationWorkspace
\* around get_workspace_snapshot(), which is dict(self._location_entries).
GetWorkspaceCopyForIteration ==
    /\ wsCalls < MaxWsCalls
    /\ LoadIfNone
    /\ wsCopy' = Some(DaemonIterationWorkspace(LoadedEntries[1]))
    /\ wsResult' = WsOutcome("get_workspace_copy_for_iteration", FALSE,
                             LoadedEntries[1])
    /\ wsCalls' = wsCalls + 1
    /\ UNCHANGED <<wsWorld, wsCleanups, wsLocationCleanups>>
    /\ UNCHANGED <<etlVars, schedVars, tbVars, bfVars, ldVars, sdVars, crVars>>

\* workspace.get_code_location_statuses(): one status per entry.
GetCodeLocationStatuses ==
    /\ wsCalls < MaxWsCalls
    /\ LoadIfNone
    /\ wsResult' = WsOutcome("get_code_location_statuses", FALSE,
                       {<<"status", LoadedEntries[1][n]>> :
                            n \in DOMAIN LoadedEntries[1]})
    /\ wsCalls' = wsCalls + 1
    /\ UNCHANGED <<wsWorld, wsCleanups, wsCopy, wsLocationCleanups>>
    /\ UNCHANGED <<etlVars, schedVars, tbVars, bfVars, ldVars, sdVars, crVars>>

\* workspace.get_code_location(location_name): the code location, or
\* DagsterCodeLocationLoadError for a location that is missing, failed to
\* load or is still loading.
GetCodeLocation(location_name) ==
    /\ wsCalls < MaxWsCalls
    /\ LoadIfNone
    /\ LET entries == LoadedEntries[1]
       IN  wsResult' =
             IF location_name \notin DOMAIN entries
             THEN WsOutcome("get_code_location", TRUE, "does not exist")
             ELSE IF entries[location_name].load_error # None
             THEN WsOutcome("get_code_location", TRUE, "failure loading")
             ELSE IF entries[location_name].code_location = None
             THEN WsOutcome("get_code_location", TRUE, "still loading")
             ELSE WsOutcome("get_code_location", FALSE,
                            entries[location_name].code_location[1])
    /\ wsCalls' = wsCalls + 1
    /\ UNCHANGED <<wsWorld, wsCleanups, wsCopy, wsLocationCleanups>>
    /\ UNCHANGED <<etlVars, schedVars, tbVars, bfVars, ldVars, sdVars, crVars>>

\* The locations whose code_location.cleanup() a cleanup(cleanup_locations)
\* calls on a workspace whose cache is `entries`: none when nothing is cached
\* or cleanup_locations is false, else every entry that has a code location.
CleanedUp(entries, cleanup_locations) ==
    IF entries = None \/ ~cleanup_locations THEN {}
    ELSE {n \in DOMAIN entries[1] : entries[1][n].code_location # None}

\* location_entry.code_location.cleanup() for each of them.
CleanupLocations(names) ==
    wsLocationCleanups' =
        [n \in LocationNames |->
            IF n \in names THEN wsLocationCleanups[n] + 1
            ELSE wsLocationCleanups[n]]

\* workspace.cleanup(cleanup_locations), and __exit__, which is
\* cleanup(cleanup_locations=True): the code locations are cleaned up when
\* asked for, then the cache is dropped.
Cleanup(cleanup_locations) ==
    /\ wsCalls < MaxWsCalls
    /\ CleanupLocations(CleanedUp(location_entries, cleanup_locations))
    /\ location_entries' = None
    /\ wsLoads' = 0
    /\ wsResult' = Some([call |-> "cleanup", loaded |-> FALSE, raised |-> FALSE,
                         value |-> cleanup_locations])
    /\ wsCalls' = wsCalls + 1
    /\ wsCleanups' = wsCleanups + 1
    /\ UNCHANGED <<wsWorld, wsCopy>>
    /\ UNCHANGED <<etlVars, schedVars, tbVars, bfVars, ldVars, sdVars, crVars>>

\* The environment: code or workspace.yaml is updated, so that the next
\* _load_workspace() returns something else.
WorkspaceChanges ==
    /\ wsWorld' \in Workspaces \ {wsWorld}
    /\ UNCHANGED <<location_entries, wsLoads, wsCalls, wsCleanups, wsResult,
                   wsCopy, wsLocationCleanups>>
    /\ UNCHANGED <<etlVars, schedVars, tbVars, bfVars, ldVars, sdVars, crVars>>

\* BaseDaemonWorkspace.__init__
WsInit ==
    /\ EtlInitWith(0)
    /\ SchedIdle
    /\ TbIdle /\ BfIdle /\ LdIdle /\ SdIdle /\ CrIdle
    /\ wsWorld \in Workspaces
    /\ location_entries = None
    /\ wsLoads = 0
    /\ wsCalls = 0
    /\ wsCleanups = 0
    /\ wsResult = None
    /\ wsCopy = None
    /\ wsLocationCleanups = [n \in LocationNames |-> 0]

WsNext ==
    \/ GetWorkspaceSnapshot
    \/ GetCodeLocationStatuses
    \/ \E location_name \in LocationNameArgs : GetCodeLocation(location_name)
    \/ \E cleanup_locations \in BOOLEAN : Cleanup(cleanup_locations)
    \/ WorkspaceChanges

WsSpec == WsInit /\ [][WsNext]_vars

\* A step that is a call of one of the three getters.
IsGetterCall ==
    /\ wsCalls' = wsCalls + 1
    /\ wsResult'[1].call # "cleanup"

\* A getter invokes _load_workspace() exactly when nothing is cached, which
\* is the case at first and after every cleanup(); otherwise it answers from
\* the cache and leaves it as it is.
LoadsOnlyWhenNothingCached ==
    /\ IsGetterCall =>
        IF location_entries = None
        THEN /\ wsLoads' = wsLoads + 1
             /\ location_entries' = Some(wsWorld)
        ELSE /\ wsLoads' = wsLoads
             /\ location_entries' = location_entries
    /\ (wsCalls' = wsCalls + 1 /\ ~IsGetterCall) =>
        /\ location_entries' = None
        /\ wsLoads' = 0

\* C14: between two consecutive cleanup() calls _load_workspace is invoked at
\* most once, however many getters are called, and the first getter called
\* after a cleanup() loads the workspace again.
C14_LoadedOncePerCleanup ==
    /\ [](wsLoads <= 1)
    /\ [](location_entries = None <=> wsLoads = 0)
    /\ [][LoadsOnlyWhenNothingCached]_vars

\* After a cleanup() the workspace was loaded again, once, and the last
\* getter was answered from the cache although the workspace has changed.
C14_Witness ==
    /\ wsCleanups >= 1
    /\ wsLoads = 1
    /\ wsCalls >= 3
    /\ wsResult # None
    /\ wsResult[1].call = "get_code_location"
    /\ ~wsResult[1].loaded
    /\ location_entries # Some(wsWorld)

\* ------------------- dagster_graphql.implementation.loader.RepositoryScopedBatchLoader

\* The most ticks the storage holds for one schedule or sensor, and the
\* largest limit a caller asks for.
MaxTicks == 2

MaxLimit == 1

\* class RepositoryDataType(Enum): the types the four getters ask for.
StateTypes == {"schedule_states", "sensor_states"}

TickTypes == {"schedule_ticks", "sensor_ticks"}

RepositoryDataType == StateTypes \cup TickTypes

\* self._repository: one schedule and one sensor, each with a name, an
\* origin id and a selector id.
Repository ==
    [schedule |-> [name |-> "daily", origin_id |-> "origin-daily",
                   selector_id |-> "selector-daily"],
     sensor |-> [name |-> "watch", origin_id |-> "origin-watch",
                 selector_id |-> "selector-watch"]]

Instigator(data_type) ==
    IF data_type \in {"schedule_states", "schedule_ticks"}
    THEN Repository.schedule
    ELSE Repository.sensor

\* The names callers pass: those of the repository and one that is not.
NameArgs == {"daily", "watch", "unknown"}

\* The <<origin_id, selector_id>> pairs callers pass for an instigator: its
\* own ids, an origin id it does not have, a selector id of no instigator.
IdArgs(instigator) ==
    {<<instigator.origin_id, instigator.selector_id>>,
     <<"origin-unknown", instigator.selector_id>>,
     <<instigator.origin_id, "selector-unknown">>}

\* What self._instance stores for the instigator of a data type: its n rows,
\* newest first.  A row is <<data_type, serial number>>.
StoredRows(data_type, n) == [i \in 1..n |-> <<data_type, n - i + 1>>]

\* A dict with one key, and dict.get(key, default).
Dict(key, value) == [k \in {key} |-> value]

DictGet(d, key, default) == IF key \in DOMAIN d THEN d[key] ELSE default

\* The dict _fetch builds.  States: all_instigator_state(...) returns every
\* stored state, appended to fetched[state.name].  Ticks: the newest `limit`
\* ticks, from get_batch_ticks(selector_ids, limit=limit) or from
\* get_ticks(origin_id, selector_id, limit=limit), whichever the instance
\* supports, stored under the origin id either way.
Fetched(data_type, limit) ==
    LET n == ldStorage[data_type]
        rows == StoredRows(data_type, n)
    IN  IF data_type \in StateTypes
        THEN IF n = 0 THEN <<>> ELSE Dict(Instigator(data_type).name, rows)
        ELSE Dict(Instigator(data_type).origin_id, SliceHead(rows, limit))

\* self._limits.get(data_type, 0)
LimitsGet(data_type) ==
    IF ldLimits[data_type] = None THEN 0 ELSE ldLimits[data_type][1]

\* limit > self._limits.get(data_type, 0)
LimitExceedsOrEquals(data_type, limit) == limit >= LimitsGet(data_type)

LimitExceeds(data_type, limit) == limit > LimitsGet(data_type)

\* The condition of _get under which it calls _fetch.
MustFetch(data_type, limit) ==
    ldData[data_type] = None \/ LimitExceeds(data_type, limit)

\* What a getter did: the _get it made, whether that queried the storage,
\* and the list _get returned.
LoaderCall(data_type, key, limit, queried, result) ==
    Some([data_type |-> data_type, key |-> key, limit |-> limit,
          raised |-> FALSE, queried |-> queried, result |-> result])

\* check.invariant(...) failed: the getter raised before _get.
LoaderRaised(data_type) ==
    Some([data_type |-> data_type, key |-> "", limit |-> 0,
          raised |-> TRUE, queried |-> FALSE, result |-> <<>>])

\* self._get(data_type, key, limit), with the _fetch it may make.
Get(data_type, key, limit) ==
    IF MustFetch(data_type, limit)
    THEN LET fetched == Fetched(data_type, limit)
         IN  /\ ldData' = [ldData EXCEPT ![data_type] = Some(fetched)]
             /\ ldLimits' = [ldLimits EXCEPT ![data_type] = Some(limit)]
             /\ ldCall' = LoaderCall(data_type, key, limit, TRUE,
                              SliceHead(DictGet(fetched, key, <<>>), limit))
    ELSE /\ UNCHANGED <<ldData, ldLimits>>
         /\ ldCall' = LoaderCall(data_type, key, limit, FALSE,
                          SliceHead(DictGet(ldData[data_type][1], key, <<>>), limit))

\* loader.get_schedule_state(schedule_name)
GetScheduleState(schedule_name) ==
    /\ IF schedule_name = Repository.schedule.name
       THEN Get("schedule_states", schedule_name, 1)
       ELSE /\ ldCall' = LoaderRaised("schedule_states")
            /\ UNCHANGED <<ldData, ldLimits>>
    /\ UNCHANGED ldStorage
    /\ UNCHANGED <<etlVars, schedVars, tbVars, wsVars, bfVars, sdVars, crVars>>

\* loader.get_sensor_state(sensor_name)
GetSensorState(sensor_name) ==
    /\ IF sensor_name = Repository.sensor.name
       THEN Get("sensor_states", sensor_name, 1)
       ELSE /\ ldCall' = LoaderRaised("sensor_states")
            /\ UNCHANGED <<ldData, ldLimits>>
    /\ UNCHANGED ldStorage
    /\ UNCHANGED <<etlVars, schedVars, tbVars, wsVars, bfVars, sdVars, crVars>>

\* loader.get_sensor_ticks(origin_id, selector_id, limit)
GetSensorTicks(origin_id, selector_id, limit) ==
    /\ IF selector_id = Repository.sensor.selector_id
       THEN Get("sensor_ticks", origin_id, limit)
       ELSE /\ ldCall' = LoaderRaised("sensor_ticks")
            /\ UNCHANGED <<ldData, ldLimits>>
    /\ UNCHANGED ldStorage
    /\ UNCHANGED <<etlVars, schedVars, tbVars, wsVars, bfVars, sdVars, crVars>>

\* loader.get_schedule_ticks(origin_id, selector_id, limit)
GetScheduleTicks(origin_id, selector_id, limit) ==
    /\ IF selector_id = Repository.schedule.selector_id
       THEN Get("schedule_ticks", origin_id, limit)
       ELSE /\ ldCall' = LoaderRaised("schedule_ticks")
            /\ UNCHANGED <<ldData, ldLimits>>
    /\ UNCHANGED ldStorage
    /\ UNCHANGED <<etlVars, schedVars, tbVars, wsVars, bfVars, sdVars, crVars>>

\* The environment: a schedule or sensor is evaluated and its tick is stored.
TickStored(data_type) ==
    /\ ldStorage[data_type] < MaxTicks
    /\ ldStorage' = [ldStorage EXCEPT ![data_type] = @ + 1]
    /\ UNCHANGED <<ldData, ldLimits, ldCall>>
    /\ UNCHANGED <<etlVars, schedVars, tbVars, wsVars, bfVars, sdVars, crVars>>

\* RepositoryScopedBatchLoader.__init__: empty _data and _limits, over an
\* instance that holds a state or none for each instigator and no tick yet.
LdInit ==
    /\ EtlInitWith(0)
    /\ SchedIdle
    /\ TbIdle /\ WsIdle /\ BfIdle /\ SdIdle /\ CrIdle
    /\ \E states \in [StateTypes -> 0..1] :
          ldStorage = [t \in RepositoryDataType |->
                          IF t \in StateTypes THEN states[t] ELSE 0]
    /\ ldData = [t \in RepositoryDataType |-> None]
    /\ ldLimits = [t \in RepositoryDataType |-> None]
    /\ ldCall = None

LdNext ==
    \/ \E schedule_name \in NameArgs : GetScheduleState(schedule_name)
    \/ \E sensor_name \in NameArgs : GetSensorState(sensor_name)
    \/ \E ids \in IdArgs(Repository.sensor), limit \in 0..MaxLimit :
          GetSensorTicks(ids[1], ids[2], limit)
    \/ \E ids \in IdArgs(Repository.schedule), limit \in 0..MaxLimit :
          GetScheduleTicks(ids[1], ids[2], limit)
    \/ \E data_type \in TickTypes : TickStored(data_type)

LdSpec == LdInit /\ [][LdNext]_vars

\* A step in which a getter was called (a call that changes nothing at all,
\* not even the record of the last call, is a stuttering step).
IsLoaderCall ==
    /\ ldStorage' = ldStorage
    /\ \/ ldCall' # ldCall
       \/ ldData' # ldData
       \/ ldLimits' # ldLimits

\* What a call of a getter must do.
CallUsesCache ==
    LET call == ldCall'[1]
        t == call.data_type
    IN  /\ call.queried <=>
              /\ ~call.raised
              /\ \/ ldData[t] = None
                 \/ call.limit > ldLimits[t][1]
        /\ ~call.queried =>
              /\ ldData' = ldData
              /\ ldLimits' = ldLimits
        /\ (~call.queried /\ ~call.raised) =>
              /\ call.limit <= ldLimits[t][1]
              /\ call.result = SubSeq(DictGet(ldData[t][1], call.key, <<>>), 1,
                                   Len(call.result))
        /\ Len(call.result) <= call.limit
        /\ \A u \in RepositoryDataType :
              ldLimits[u] # None =>
                  /\ ldLimits'[u] # None
                  /\ ldLimits'[u][1] >= ldLimits[u][1]

\* C20: the storage is queried for a data type only when that type was never
\* fetched or the requested limit exceeds the cached limit; a request with a
\* limit of at most the cached limit is served from the cache without a
\* query; the cached limit of a type never decreases and every result has
\* at most `limit` items.
C20_QueriesOnlyBeyondCache ==
    /\ [](\A t \in DOMAIN ldData : ldData[t] = None <=> ldLimits[t] = None)
    /\ [][IsLoaderCall => CallUsesCache]_vars

\* Ticks were requested again, with the limit already cached, after another
\* tick was stored: the answer came from the cache, without a query, and does
\* not have the new tick.
C20_Witness ==
    /\ ldCall # None
    /\ ldCall[1].data_type = "schedule_ticks"
    /\ ~ldCall[1].raised
    /\ ~ldCall[1].queried
    /\ ldCall[1].limit = 1
    /\ ldLimits["schedule_ticks"] = Some(1)
    /\ ldStorage["schedule_ticks"] = 2
    /\ ldCall[1].result = <<<<"schedule_ticks", 1>>>>

\* ------------------------------------------------------ dagster._serdes.serdes

\* How deep the values handed to pack_value and serialize_value nest.
MaxDepth == 2

\* A Python value is its type and its content.  A str is the sequence of
\* its pieces, so that f"{a}.{b}" is <<a, ".", b>> and can be split again;
\* a dict is a function from its (str) keys; a set is a set.
Py(kind, val) == [kind |-> kind, val |-> val]

PyNone == Py("NoneType", <<>>)

PyBool(b) == Py("bool", b)

PyInt(n) == Py("int", n)

PyFloat(literal) == Py("float", literal)

PyStr(pieces) == Py("str", pieces)

PyList(items) == Py("list", items)

PyDict(items) == Py("dict", items)

PySet(elements) == Py("set", elements)

PyFrozenSet(elements) == Py("frozenset", elements)

PyEnum(cls, name) == Py("enum", [cls |-> cls, name |-> name])

PyNamedTuple(cls, fields) == Py("namedtuple", [cls |-> cls, fields |-> fields])

\* An exception that left the call.
PyRaise(exception) == Py("raise", exception)

IsRaise(v) == v.kind = "raise"

\* The classes decorated with @whitelist_for_serdes: two enums and two
\* NamedTuples, one of each registered with a storage_name, the NamedTuple
\* also with storage_field_names.
\*   class Color(Enum): RED            class Foo(NamedTuple): bar
\*   class Shade(Enum): DARK  (storage_name="Tint")
\*   class Baz(NamedTuple): qux  (storage_name="StoredBaz",
\*                                storage_field_names={"qux": "q"})
EnumClasses == [Color |-> [members |-> {"RED"}, storage_name |-> None],
                Shade |-> [members |-> {"DARK"}, storage_name |-> Some("Tint")]]

ObjectClasses ==
    [Foo |-> [fields |-> {"bar"}, storage_name |-> None,
              storage_field_names |-> <<>>],
     Baz |-> [fields |-> {"qux"}, storage_name |-> Some("StoredBaz"),
              storage_field_names |-> Dict("qux", "q")]]

\* EnumSerializer(klass=..., storage_name=...)
EnumSerializer(klass) ==
    [klass |-> klass, storage_name |-> EnumClasses[klass].storage_name]

\* ObjectSerializer.__init__: loaded_field_names inverts storage_field_names.
ObjectSerializer(klass) ==
    LET names == ObjectClasses[klass].storage_field_names
    IN  [klass |-> klass,
         storage_name |-> ObjectClasses[klass].storage_name,
         storage_field_names |-> names,
         loaded_field_names |->
             [v \in {names[k] : k \in DOMAIN names} |->
                 CHOOSE k \in DOMAIN names : names[k] = v]]

\* get_storage_name: self.storage_name or self.klass.__name__
get_storage_name(serializer) ==
    IF serializer.storage_name # None
    THEN serializer.storage_name[1]
    ELSE serializer.klass

\* _WHITELIST_MAP after register_object and register_enum for the classes
\* above: an object is packed by its class name and unpacked by its storage
\* name; an enum is found under its class name and under its storage name.
WhitelistMap ==
    [object_serializers |->
        [name \in DOMAIN ObjectClasses |-> ObjectSerializer(name)],
     object_deserializers |->
        [name \in {get_storage_name(ObjectSerializer(k)) : k \in DOMAIN ObjectClasses} |->
            ObjectSerializer(CHOOSE k \in DOMAIN ObjectClasses :
                                 get_storage_name(ObjectSerializer(k)) = name)],
     enum_serializers |->
        [name \in DOMAIN EnumClasses
                  \cup {get_storage_name(EnumSerializer(k)) : k \in DOMAIN EnumClasses} |->
            EnumSerializer(CHOOSE k \in DOMAIN EnumClasses :
                               name \in {k, get_storage_name(EnumSerializer(k))})]]

\* The keys that mark a packed object, enum, set, frozenset or mapping.
MarkerKeys == {"__class__", "__enum__", "__set__", "__frozenset__", "__mapping_items__"}

\* The scalars and enum members values are built from.
Leaves ==
    {PyNone, PyBool(TRUE), PyInt(2), PyFloat("1.5"), PyStr(<<"a">>),
     PyEnum("Color", "RED"), PyEnum("Shade", "DARK")}

\* The keys of the dicts that are tried: an ordinary key and a marker key.
DictKeys == {"k", "__set__"}

\* Whether a value can be an element of a set.
RECURSIVE Hashable(_)
Hashable(v) ==
    CASE v.kind \in {"list", "dict", "set", "raise"} -> FALSE
      [] v.kind = "namedtuple" ->
            \A f \in DOMAIN v.val.fields : Hashable(v.val.fields[f])
      [] OTHER -> TRUE

\* The values of nesting depth d at most: the leaves; lists and dicts of no
\* or one item; sets and frozensets of no or one element, or of two leaves;
\* Foo and Baz instances.
RECURSIVE PyValues(_)
PyValues(d) ==
    IF d = 0 THEN Leaves
    ELSE LET inner == PyValues(d - 1)
             elements == {{}} \cup {{v} : v \in {h \in inner : Hashable(h)}}
                              \cup {{a, b} : a \in Leaves, b \in Leaves}
         IN  Leaves
             \cup {PyList(<<>>)} \cup {PyList(<<v>>) : v \in inner}
             \cup {PyDict(<<>>)}
             \cup {PyDict(Dict(k, v)) : k \in DictKeys, v \in inner}
             \cup {PySet(s) : s \in elements}
             \cup {PyFrozenSet(s) : s \in elements}
             \cup {PyNamedTuple("Foo", Dict("bar", v)) : v \in inner}
             \cup {PyNamedTuple("Baz", Dict("qux", v)) : v \in inner}

\* sorted(list(val), key=str): the leaves in the order of their str(), which
\* is "1.5" < "2" < "Color.RED" < "None" < "Shade.DARK" < "True" < "a".
StrOrder ==
    <<PyFloat("1.5"), PyInt(2), PyEnum("Color", "RED"), PyNone,
      PyEnum("Shade", "DARK"), PyBool(TRUE), PyStr(<<"a">>)>>

RECURSIVE SortedByStr(_)
SortedByStr(elements) ==
    IF Cardinality(elements) <= 1
    THEN IF elements = {} THEN <<>> ELSE <<CHOOSE v \in elements : TRUE>>
    ELSE LET first == CHOOSE i \in 1..Len(StrOrder) :
                          /\ StrOrder[i] \in elements
                          /\ \A j \in 1..(i - 1) : StrOrder[j] \notin elements
         IN  <<StrOrder[first]>> \o SortedByStr(elements \ {StrOrder[first]})

\* ObjectSerializer.pack_items: self.storage_field_names.get(key, key)
StorageKey(serializer, key) == DictGet(serializer.storage_field_names, key, key)

\* _transform_for_serialization, with _pack_object and pack_items for a
\* NamedTuple and EnumSerializer.pack for an enum.
RECURSIVE transform_for_serialization(_)
transform_for_serialization(val) ==
    CASE val.kind \in {"int", "float", "str", "bool", "NoneType"} -> val
      [] val.kind = "list" ->
            PyList([i \in 1..Len(val.val) |->
                       transform_for_serialization(val.val[i])])
      [] val.kind = "dict" ->
            PyDict([key \in DOMAIN val.val |->
                       transform_for_serialization(val.val[key])])
      [] val.kind = "enum" ->
            LET enum_serializer == WhitelistMap.enum_serializers[val.val.cls]
            IN  PyDict(Dict("__enum__",
                    PyStr(<<get_storage_name(enum_serializer), ".", val.val.name>>)))
      [] val.kind = "namedtuple" ->
            LET serializer == WhitelistMap.object_serializers[val.val.cls]
                fields == val.val.fields
                keys == {StorageKey(serializer, f) : f \in DOMAIN fields}
            IN  PyDict([key \in {"__class__"} \cup keys |->
                    IF key = "__class__"
                    THEN PyStr(<<get_storage_name(serializer)>>)
                    ELSE transform_for_serialization(
                             fields[CHOOSE f \in DOMAIN fields :
                                        StorageKey(serializer, f) = key])])
      [] val.kind = "set" ->
            LET items == SortedByStr(val.val)
            IN  PyDict(Dict("__set__",
                    PyList([i \in 1..Len(items) |->
                               transform_for_serialization(items[i])])))
      [] val.kind = "frozenset" ->
            LET items == SortedByStr(val.val)
            IN  PyDict(Dict("__frozenset__",
                    PyList([i \in 1..Len(items) |->
                               transform_for_serialization(items[i])])))

pack_value(val) == transform_for_serialization(val)

\* Python's set(items) and frozenset(items): the elements `items` yields when
\* iterated (a list's items, a str's characters, a dict's keys, a tuple's
\* fields), TypeError for a value that is not iterable or yields a value
\* that is not hashable.
SetOf(kind, items) ==
    LET elements ==
            CASE items.kind = "list" ->
                    {items.val[i] : i \in 1..Len(items.val)}
              [] items.kind = "str" ->
                    {PyStr(<<items.val[i]>>) : i \in 1..Len(items.val)}
              [] items.kind = "dict" ->
                    {PyStr(<<key>>) : key \in DOMAIN items.val}
              [] items.kind \in {"set", "frozenset"} -> items.val
              [] items.kind = "namedtuple" ->
                    {items.val.fields[f] : f \in DOMAIN items.val.fields}
              [] OTHER -> {PyRaise("TypeError")}
    IN  IF \A v \in elements : Hashable(v)
        THEN Py(kind, elements)
        ELSE PyRaise("TypeError")

\* ObjectSerializer.unpack: self.loaded_field_names.get(key, key)
LoadedNameAsStored(serializer, key) == key

LoadedName(serializer, key) == DictGet(serializer.loaded_field_names, key, key)

\* ObjectSerializer.unpack: the entries whose loaded name is a parameter of
\* the constructor are passed to it, the others ignored; the constructor
\* raises TypeError when an argument is missing.
ObjectUnpack(serializer, unpacked_dict) ==
    LET params == ObjectClasses[serializer.klass].fields
        used == {key \in DOMAIN unpacked_dict : LoadedName(serializer, key) \in params}
        unpacked == [name \in {LoadedName(serializer, key) : key \in used} |->
                        unpacked_dict[CHOOSE key \in used :
                                          LoadedName(serializer, key) = name]]
    IN  IF DOMAIN unpacked = params
        THEN PyNamedTuple(serializer.klass, unpacked)
        ELSE PyRaise("TypeError")

\* enum.split("."), for a str that is the sequence of its pieces.
SplitDot(pieces) ==
    IF Len(pieces) = 3 /\ pieces[2] = "."
    THEN <<pieces[1], pieces[3]>>
    ELSE <<pieces>>

\* _unpack_object: a dict with a marker key becomes the object, enum member,
\* set or frozenset it stands for; any other dict is returned as it is.  An
\* unknown class or enum is a DeserializationError when unpacking ends.
\* (No value here is a SerializableNonScalarKeyMapping, the one type packed
\* under "__mapping_items__".)
unpack_object(val) ==
    IF "__class__" \in DOMAIN val
    THEN LET klass_name == val["__class__"]
         IN  IF klass_name.kind = "str" /\ Len(klass_name.val) = 1
                 /\ klass_name.val[1] \in DOMAIN WhitelistMap.object_deserializers
             THEN ObjectUnpack(
                      WhitelistMap.object_deserializers[klass_name.val[1]],
                      [key \in DOMAIN val \ {"__class__"} |-> val[key]])
             ELSE PyRaise("DeserializationError")
    ELSE IF "__enum__" \in DOMAIN val
    THEN LET enum == val["__enum__"]
         IN  IF enum.kind # "str" THEN PyRaise("AttributeError")
             ELSE IF Len(SplitDot(enum.val)) # 2 THEN PyRaise("ValueError")
             ELSE LET name == SplitDot(enum.val)[1]
                      member == SplitDot(enum.val)[2]
                  IN  IF name \notin DOMAIN WhitelistMap.enum_serializers
                      THEN PyRaise("DeserializationError")
                      ELSE LET klass == WhitelistMap.enum_serializers[name].klass
                           IN  IF member \in EnumClasses[klass].members
                               THEN PyEnum(klass, member)
                               ELSE PyRaise("KeyError")
    ELSE IF "__set__" \in DOMAIN val
    THEN SetOf("set", val["__set__"])
    ELSE IF "__frozenset__" \in DOMAIN val
    THEN SetOf("frozenset", val["__frozenset__"])
    ELSE PyDict(val)

\* An exception raised while the items of a list or dict are unpacked.
RaisedIn(items) == CHOOSE v \in {items[i] : i \in DOMAIN items} : IsRaise(v)

\* _unpack_value: bottom up, every dict through _unpack_object.
RECURSIVE unpack_value_rec(_)
unpack_value_rec(val) ==
    IF val.kind = "list"
    THEN LET items == [i \in 1..Len(val.val) |-> unpack_value_rec(val.val[i])]
         IN  IF \E i \in DOMAIN items : IsRaise(items[i])
             THEN RaisedIn(items)
             ELSE PyList(items)
    ELSE IF val.kind = "dict"
    THEN LET unpacked_vals == [k \in DOMAIN val.val |-> unpack_value_rec(val.val[k])]
         IN  IF \E k \in DOMAIN unpacked_vals : IsRaise(unpacked_vals[k])
             THEN RaisedIn(unpacked_vals)
             ELSE unpack_object(unpacked_vals)
    ELSE val

unpack_value(val) == unpack_value_rec(val)

\* json.dumps: the JSON text, as the tree of its objects, arrays, strings,
\* numbers (with or without a fraction part) and literals.
RECURSIVE dumps(_)
dumps(val) ==
    CASE val.kind = "dict" ->
            [kind |-> "object", val |-> [k \in DOMAIN val.val |-> dumps(val.val[k])]]
      [] val.kind = "list" ->
            [kind |-> "array", val |-> [i \in 1..Len(val.val) |-> dumps(val.val[i])]]
      [] val.kind = "str" -> [kind |-> "string", val |-> val.val]
      [] val.kind = "int" -> [kind |-> "number", fraction |-> FALSE, val |-> val.val]
      [] val.kind = "float" -> [kind |-> "number", fraction |-> TRUE, val |-> val.val]
      [] val.kind = "bool" -> [kind |-> IF val.val THEN "true" ELSE "false", val |-> <<>>]
      [] val.kind = "NoneType" -> [kind |-> "null", val |-> <<>>]

\* json.loads(text, object_hook=_unpack_object): every JSON object becomes a
\* dict and is passed through the hook as soon as it is parsed.
RECURSIVE loads(_)
loads(json) ==
    CASE json.kind = "object" ->
            LET items == [k \in DOMAIN json.val |-> loads(json.val[k])]
            IN  IF \E k \in DOMAIN items : IsRaise(items[k])
                THEN RaisedIn(items)
                ELSE unpack_object(items)
      [] json.kind = "array" ->
            LET items == [i \in 1..Len(json.val) |-> loads(json.val[i])]
            IN  IF \E i \in DOMAIN items : IsRaise(items[i])
                THEN RaisedIn(items)
                ELSE PyList(items)
      [] json.kind = "string" -> PyStr(json.val)
      [] json.kind = "number" ->
            IF json.fraction THEN PyFloat(json.val) ELSE PyInt(json.val)
      [] json.kind = "true" -> PyBool(TRUE)
      [] json.kind = "false" -> PyBool(FALSE)
      [] json.kind = "null" -> PyNone

\* serialize_value and deserialize_value.
serialize_value(val) == dumps(transform_for_serialization(val))

deserialize_value(text) == loads(text)

\* packed = pack_value(val)
SdPackValue ==
    /\ sdPc = "start"
    /\ sdWire' = Some(pack_value(sdVal[1]))
    /\ sdPc' = "packed"
    /\ UNCHANGED <<sdVal, sdOut>>
    /\ UNCHANGED <<etlVars, schedVars, tbVars, wsVars, bfVars, ldVars, crVars>>

\* unpack_value(packed)
SdUnpackValue ==
    /\ sdPc = "packed"
    /\ sdOut' = Some(unpack_value(sdWire[1]))
    /\ sdPc' = "unpacked"
    /\ UNCHANGED <<sdVal, sdWire>>
    /\ UNCHANGED <<etlVars, schedVars, tbVars, wsVars, bfVars, ldVars, crVars>>

\* text = serialize_value(val)
SdSerializeValue ==
    /\ sdPc = "start"
    /\ sdWire' = Some(serialize_value(sdVal[1]))
    /\ sdPc' = "serialized"
    /\ UNCHANGED <<sdVal, sdOut>>
    /\ UNCHANGED <<etlVars, schedVars, tbVars, wsVars, bfVars, ldVars, crVars>>

\* deserialize_value(text)
SdDeserializeValue ==
    /\ sdPc = "serialized"
    /\ sdOut' = Some(deserialize_value(sdWire[1]))
    /\ sdPc' = "deserialized"
    /\ UNCHANGED <<sdVal, sdWire>>
    /\ UNCHANGED <<etlVars, schedVars, tbVars, wsVars, bfVars, ldVars, crVars>>

SdInit ==
    /\ EtlInitWith(0)
    /\ SchedIdle
    /\ TbIdle /\ WsIdle /\ BfIdle /\ LdIdle /\ CrIdle
    /\ \E v \in PyValues(MaxDepth) : sdVal = Some(v)
    /\ sdWire = None
    /\ sdOut = None
    /\ sdPc = "start"

SdNext ==
    \/ SdPackValue
    \/ SdUnpackValue
    \/ SdSerializeValue
    \/ SdDeserializeValue

SdSpec == SdInit /\ [][SdNext]_vars

\* Whether no dict inside a value has a marker key.
RECURSIVE NoMarkerKey(_)
NoMarkerKey(v) ==
    CASE v.kind = "dict" ->
            /\ DOMAIN v.val \cap MarkerKeys = {}
            /\ \A k \in DOMAIN v.val : NoMarkerKey(v.val[k])
      [] v.kind = "list" -> \A i \in 1..Len(v.val) : NoMarkerKey(v.val[i])
      [] v.kind \in {"set", "frozenset"} -> \A e \in v.val : NoMarkerKey(e)
      [] v.kind = "namedtuple" ->
            \A f \in DOMAIN v.val.fields : NoMarkerKey(v.val.fields[f])
      [] OTHER -> TRUE

MaxCrCalls == 3

\* @lru_cache(maxsize=1)
LruMaxsize == 1

\* The loader instances at hand; each is built for one request context.
Loaders == {"loader1", "loader2"}

\* (location.name, repo_name)
EtlRepo == <<"etl", "__repository__">>

ReportsRepo == <<"reports", "__repository__">>

AssetKeys == {"sickness", "report", "other"}

\* An ExternalAssetDependedBy of the source asset "sickness".
ReportDependsOnSickness ==
    [downstream_asset_key |-> "report", input_name |-> "sickness",
     output_name |-> "result"]

\* An external asset node with the repository that lists it.  op_name is
\* missing for a source asset.
AssetNode(location_tuple, asset_key, op_name, depended_by) ==
    [location_tuple |-> location_tuple, asset_key |-> asset_key,
     op_name |-> op_name, depended_by |-> depended_by]

\* self._context.code_locations, flattened to the asset nodes of every
\* repository: one repository alone, or two where the second one uses the
\* first one's asset as a source asset.
Contexts ==
    {{AssetNode(EtlRepo, "sickness", Some("sickness"), {})},
     {AssetNode(EtlRepo, "sickness", Some("sickness"), {}),
      AssetNode(ReportsRepo, "sickness", None, {ReportDependsOnSickness}),
      AssetNode(ReportsRepo, "report", Some("report"), {})}}

\* `if not asset_node.op_name:  # is source asset`
SourceNodes(context) == {n \in context : n.op_name = None}

\* depended_by_assets_by_location_by_source_asset[source_asset]
DependedByAssetsByLocation(context, source_asset) ==
    LET nodes == {n \in SourceNodes(context) : n.asset_key = source_asset}
    IN  [location_tuple \in {n.location_tuple : n \in nodes} |->
            UNION {n.depended_by :
                     n \in {m \in nodes : m.location_tuple = location_tuple}}]

\* map_derived_asset_to_location; an asset is derived in one repository.
MapDerivedAssetToLocation(context) ==
    LET derived == {n \in context : n.op_name # None}
    IN  [asset_key \in {n.asset_key : n \in derived} |->
            (CHOOSE n \in derived : n.asset_key = asset_key).location_tuple]

AllDependedByAssets(context, source_asset) ==
    LET by_location == DependedByAssetsByLocation(context, source_asset)
    IN  UNION {by_location[l] : l \in DOMAIN by_location}

\* Every location where the source asset is defined, the one where it is a
\* derived asset included.
SourceAssetLocations(context, source_asset) ==
    DOMAIN DependedByAssetsByLocation(context, source_asset)
      \cup (IF source_asset \in DOMAIN MapDerivedAssetToLocation(context)
            THEN {MapDerivedAssetToLocation(context)[source_asset]}
            ELSE {})

\* The body of _build_cross_repo_deps: (sink_assets, external_asset_deps).
\* The lists of depended-by assets come out of a set, so they are sets here.
BuildCrossRepoDeps(context) ==
    LET source_assets == {n.asset_key : n \in SourceNodes(context)}
        locations == UNION {SourceAssetLocations(context, s) : s \in source_assets}
        external_asset_deps ==
            [l \in locations |->
                [s \in {t \in source_assets : l \in SourceAssetLocations(context, t)} |->
                    AllDependedByAssets(context, s)
                      \ DictGet(DependedByAssetsByLocation(context, s), l, {})]]
        sinks == UNION {{<<s, a>> : a \in AllDependedByAssets(context, s)} :
                          s \in source_assets}
        sink_assets ==
            [k \in {p[2].downstream_asset_key : p \in sinks} |->
                LET p == CHOOSE q \in sinks : q[2].downstream_asset_key = k
                IN  [asset_key |-> k,
                     dependencies |-> <<[upstream_asset_key |-> p[1],
                                         input_name |-> p[2].input_name,
                                         output_name |-> p[2].output_name]>>,
                     depended_by |-> <<>>,
                     execution_type |-> "UNEXECUTABLE"]]
    IN  <<sink_assets, external_asset_deps>>

\* functools.lru_cache wraps the function, not the bound method: all the
\* loaders share one cache, whose key is the argument list (self,).
CacheHit(loader) == \E i \in DOMAIN crCache : crCache[i].key = loader

CachedValue(loader) ==
    (CHOOSE e \in {crCache[i] : i \in DOMAIN crCache} : e.key = loader).value

\* The value self._build_cross_repo_deps() returns.
CrossRepoDeps(loader) ==
    IF CacheHit(loader) THEN CachedValue(loader)
    ELSE BuildCrossRepoDeps(crContext[loader])

\* The cache after the call: a hit moves the entry to the recent end, a miss
\* appends the new entry and drops the oldest ones beyond maxsize.
CacheAfter(loader) ==
    LET others == SelectSeq(crCache, LAMBDA e : e.key # loader)
        all == Append(others, [key |-> loader, value |-> CrossRepoDeps(loader)])
    IN  IF Len(all) > LruMaxsize
        THEN SubSeq(all, Len(all) - LruMaxsize + 1, Len(all))
        ELSE all

\* self._build_cross_repo_deps() through the lru_cache wrapper.
CallBuildCrossRepoDeps(loader) ==
    /\ crCache' = CacheAfter(loader)
    /\ crBuilds' = IF CacheHit(loader) THEN crBuilds
                   ELSE [crBuilds EXCEPT ![loader] = @ + 1]

CrOutcome(call, loader, raises, value) ==
    Some([call |-> call, loader |-> loader, hit |-> CacheHit(loader),
          raised |-> raises, value |-> value])

\* loader.get_sink_asset(asset_key): sink_assets[asset_key], a KeyError when
\* the key is no sink asset.
GetSinkAsset(loader, asset_key) ==
    /\ crCalls < MaxCrCalls
    /\ CallBuildCrossRepoDeps(loader)
    /\ LET sink_assets == CrossRepoDeps(loader)[1]
       IN  crResult' =
             IF asset_key \in DOMAIN sink_assets
             THEN CrOutcome("get_sink_asset", loader, FALSE, sink_assets[asset_key])
             ELSE CrOutcome("get_sink_asset", loader, TRUE, "KeyError")
    /\ crCalls' = crCalls + 1
    /\ UNCHANGED crContext
    /\ UNCHANGED <<etlVars, schedVars, tbVars, wsVars, bfVars, ldVars, sdVars>>

\* loader.get_cross_repo_dependent_assets(repository_location_name,
\* repository_name, asset_key)
GetCrossRepoDependentAssets(loader, location_tuple, asset_key) ==
    /\ crCalls < MaxCrCalls
    /\ CallBuildCrossRepoDeps(loader)
    /\ LET external_asset_deps == CrossRepoDeps(loader)[2]
       IN  crResult' =
             CrOutcome("get_cross_repo_dependent_assets", loader, FALSE,
                       DictGet(DictGet(external_asset_deps, location_tuple, <<>>),
                               asset_key, {}))
    /\ crCalls' = crCalls + 1
    /\ UNCHANGED crContext
    /\ UNCHANGED <<etlVars, schedVars, tbVars, wsVars, bfVars, ldVars, sdVars>>

\* CrossRepoAssetDependedByLoader(context), once per loader; nothing has
\* called _build_cross_repo_deps yet.
CrInit ==
    /\ EtlInitWith(0)
    /\ SchedIdle
    /\ TbIdle /\ WsIdle /\ BfIdle /\ LdIdle /\ SdIdle
    /\ crContext \in [Loaders -> Contexts]
    /\ crCache = <<>>
    /\ crBuilds = [l \in Loaders |-> 0]
    /\ crCalls = 0
    /\ crResult = None

CrNext ==
    \/ \E loader \in Loaders, asset_key \in AssetKeys :
         GetSinkAsset(loader, asset_key)
    \/ \E loader \in Loaders, location_tuple \in {EtlRepo, ReportsRepo},
          asset_key \in AssetKeys :
         GetCrossRepoDependentAssets(loader, location_tuple, asset_key)

CrSpec == CrInit /\ [][CrNext]_vars

\* C21: for a given loader instance the cross-repository dependency maps are
\* computed at most once, however many times get_sink_asset and
\* get_cross_repo_dependent_assets are called on it, also when the calls on
\* two distinct loader instances are interleaved.
C21_ComputedAtMostOncePerLoader ==
    \A loader \in DOMAIN crBuilds : crBuilds[loader] <= 1

\* ------------------------------------------------------------------------
\* dagster/_daemon/workspace.py: DaemonIterationWorkspace
\* ------------------------------------------------------------------------

\* DaemonIterationWorkspace._load_workspace
IterationLoadWorkspaceAnew == wsWorld

IterationLoadWorkspace == wsCopy[1].location_entries_copy

\* The iteration workspace's cache once a getter has run:
\* if self._location_entries is None:
\*     self._location_entries = self._load_workspace()
IterationEntries ==
    IF wsCopy[1].location_entries = None
    THEN Some(IterationLoadWorkspace)
    ELSE wsCopy[1].location_entries

\* iteration_workspace.get_workspace_snapshot(), inherited from
\* BaseDaemonWorkspace.
IterationGetWorkspaceSnapshot ==
    /\ wsCalls < MaxWsCalls
    /\ wsCopy # None
    /\ wsCopy' = Some([wsCopy[1] EXCEPT !.location_entries = IterationEntries])
    /\ wsResult' = Some([call |-> "iteration.get_workspace_snapshot",
                         loaded |-> wsCopy[1].location_entries = None,
                         raised |-> FALSE, value |-> IterationEntries[1]])
    /\ wsCalls' = wsCalls + 1
    /\ UNCHANGED <<wsWorld, location_entries, wsLoads, wsCleanups,
                   wsLocationCleanups>>
    /\ UNCHANGED <<etlVars, schedVars, tbVars, bfVars, ldVars, sdVars, crVars>>

\* iteration_workspace.cleanup(cleanup_locations), inherited as well: the
\* entries of the copy hold the parent's CodeLocation objects.
IterationCleanup(cleanup_locations) ==
    /\ wsCalls < MaxWsCalls
    /\ wsCopy # None
    /\ CleanupLocations(CleanedUp(wsCopy[1].location_entries, cleanup_locations))
    /\ wsCopy' = Some([wsCopy[1] EXCEPT !.location_entries = None])
    /\ wsResult' = Some([call |-> "iteration.cleanup", loaded |-> FALSE,
                         raised |-> FALSE, value |-> cleanup_locations])
    /\ wsCalls' = wsCalls + 1
    /\ UNCHANGED <<wsWorld, location_entries, wsLoads, wsCleanups>>
    /\ UNCHANGED <<etlVars, schedVars, tbVars, bfVars, ldVars, sdVars, crVars>>

\* A daemon's main thread works on the workspace while a background thread
\* works on the copy it was handed.
IwNext ==
    \/ GetWorkspaceSnapshot
    \/ GetWorkspaceCopyForIteration
    \/ \E cleanup_locations \in BOOLEAN : Cleanup(cleanup_locations)
    \/ WorkspaceChanges
    \/ IterationGetWorkspaceSnapshot
    \/ \E cleanup_locations \in BOOLEAN : IterationCleanup(cleanup_locations)

IwSpec == WsInit /\ [][IwNext]_vars

\* The last call was made on the workspace itself and has this name.
IsParentCall(call) ==
    /\ wsCalls' = wsCalls + 1
    /\ wsResult'[1].call = call

\* The entries of a cache that hold a code location.
LoadedCodeLocations(entries) ==
    {n \in DOMAIN entries : entries[n].code_location # None}

\* get_workspace_copy_for_iteration hands out the entries the workspace has
\* cached at that moment, and no later call changes what a copy captured.
CopyKeepsCapturedEntries ==
    IF IsParentCall("get_workspace_copy_for_iteration")
    THEN /\ wsCopy' # None
         /\ wsCopy'[1].location_entries_copy = location_entries'[1]
    ELSE wsCopy # None =>
            /\ wsCopy' # None
            /\ wsCopy'[1].location_entries_copy = wsCopy[1].location_entries_copy

\* cleanup(cleanup_locations=False) calls no CodeLocation.cleanup();
\* cleanup(cleanup_locations=True) calls it once on every code location of
\* the cache and on nothing else; either way the cache is dropped.
ParentCleanupHonoursFlag ==
    IsParentCall("cleanup") =>
        /\ location_entries' = None
        /\ \A n \in LocationNames :
             wsLocationCleanups'[n] =
               IF /\ wsResult'[1].value
                  /\ location_entries # None
                  /\ n \in LoadedCodeLocations(location_entries[1])
               THEN wsLocationCleanups[n] + 1
               ELSE wsLocationCleanups[n]

\* C22: a DaemonIterationWorkspace obtained from
\* get_workspace_copy_for_iteration keeps returning the location entries
\* captured at copy time, also after the parent workspace has called
\* cleanup(cleanup_locations=False) and reloaded; cleanup(False) on the parent
\* calls cleanup() on no CodeLocation, cleanup(True) calls it on every loaded
\* CodeLocation before the cache is dropped.
C22_CopySurvivesParentCleanup ==
    /\ []((wsResult # None /\ wsResult[1].call = "iteration.get_workspace_snapshot")
            => (wsCopy # None /\ wsResult[1].value = wsCopy[1].location_entries_copy))
    /\ [][CopyKeepsCapturedEntries /\ ParentCleanupHonoursFlag]_vars

\* The copy captured a code location; the parent then cleaned up without
\* touching any code location and loaded a changed workspace; the copy was
\* asked afterwards and returned what it had captured.
C22_Witness ==
    /\ wsCalls >= 4
    /\ wsCleanups >= 1
    /\ wsResult # None
    /\ wsResult[1].call = "iteration.get_workspace_snapshot"
    /\ wsCopy # None
    /\ wsResult[1].value = wsCopy[1].location_entries_copy
    /\ LoadedCodeLocations(wsCopy[1].location_entries_copy) # {}
    /\ location_entries # None
    /\ location_entries[1] # wsCopy[1].location_entries_copy
    /\ \A n \in LocationNames : wsLocationCleanups[n] = 0

====
